---- MODULE Spec2Model ----
(***************************************************************************)
(* Model of rgssad-fuse: the LCG keystream (rgssad/crypto.py), the XOR     *)
(* reader, the seekable entry stream and the archive's inode table         *)
(* (rgssad/core.py).                                                       *)
(*                                                                         *)
(* A 32-bit word is the pair <<hi, lo>> of its two 16-bit halves, so that  *)
(* every product and sum is taken modulo 2^32 exactly as the code's        *)
(* "& 0xffffffff" does.                                                    *)
(***************************************************************************)
EXTENDS Integers, Sequences, FiniteSets, TLC

\* ------------------------------------------------------------------------
\* 32-bit arithmetic
\* ------------------------------------------------------------------------
Half == 65536

W32(hi, lo) == <<hi, lo>>

\* the 32-bit word of a small non-negative or negative integer (x & 0xffffffff)
ToW32(x) == <<(x \div Half) % Half, x % Half>>

\* a * b for 16-bit a, b as <<high half, low half>> of the 32-bit product
MulHalves(a, b) ==
    LET X == a * (b \div 256)
        Y == a * (b % 256)
        T == (X % 256) * 256 + Y
    IN  <<(X \div 256) + (T \div Half), T % Half>>

Mul32(x, y) ==
    LET P == MulHalves(x[2], y[2])
    IN  <<(P[1] + MulHalves(x[1], y[2])[2] + MulHalves(x[2], y[1])[2]) % Half, P[2]>>

Add32(x, y) ==
    LET s == x[2] + y[2]
    IN  <<(x[1] + y[1] + (s \div Half)) % Half, s % Half>>

Sub32(x, y) ==
    LET s == x[2] - y[2]
    IN  <<(x[1] - y[1] + (s \div Half)) % Half, s % Half>>

\* byte j (0 = least significant) of a 32-bit word, as struct '<I' lays it out
ByteOf(w, j) ==
    IF j = 0 THEN w[2] % 256
    ELSE IF j = 1 THEN w[2] \div 256
    ELSE IF j = 2 THEN w[1] % 256
    ELSE w[1] \div 256

RECURSIVE XorBits(_, _, _)
XorBits(a, b, n) ==
    IF n = 0 THEN 0
    ELSE ((a + b) % 2) + 2 * XorBits(a \div 2, b \div 2, n - 1)

Xor8(a, b) == XorBits(a, b, 8)

\* ------------------------------------------------------------------------
\* crypto.py: xgcd, lcg_gen, LCG_TABLE
\* ------------------------------------------------------------------------
None == <<>>

\* the while loop of xgcd from its third iteration on; the new s is only
\* formed when the loop goes round again (the value returned is old_s)
RECURSIVE XgcdLoop(_, _, _, _)
XgcdLoop(old_r, r, old_s, s) ==
    IF r = 0 THEN <<old_r, old_s>>
    ELSE LET q  == old_r \div r
             nr == old_r - q * r
         IN  IF nr = 0 THEN <<r, s>>
             ELSE XgcdLoop(r, nr, s, old_s - q * s)

\* xgcd(a, 1 << 32) for 0 < a < 2^15.  The first iteration has q = 0 and
\* swaps the pairs; the second divides 2^32 by a (long division over the
\* 16-bit halves of 2^32), after which every value fits.
xgcd(a) ==
    LET q1 == Half \div a
        r1 == Half % a
        q  == q1 * Half + ((r1 * Half) \div a)
        r  == (r1 * Half) % a
    IN  XgcdLoop(a, r, 1, 0 - q)

RECURSIVE LcgRows(_, _, _, _)
LcgRows(m, a, im, left) ==
    IF left = 0 THEN <<>>
    ELSE LET m2  == Mul32(m, m)
             a2  == Mul32(a, Add32(m, ToW32(1)))
             im2 == IF im = None THEN None ELSE Mul32(im, im)
         IN  <<<<m2, a2, im2>>>> \o LcgRows(m2, a2, im2, left - 1)

lcg_gen(mul, add, bits) ==
    LET g  == xgcd(mul)
        im == IF g[1] # 1 THEN None ELSE ToW32(g[2])
    IN  <<<<ToW32(mul), ToW32(add), im>>>>
          \o LcgRows(ToW32(mul), ToW32(add), im, bits - 1)

TableBits == 30

LCG_TABLE == lcg_gen(7, 3, TableBits)

\* ------------------------------------------------------------------------
\* crypto.py: MagicKeyFactory
\* ------------------------------------------------------------------------
DEFAULT_IV == W32(57005, 51966)        \* 0xdeadcafe

\* MagicKeyFactory._lcg_table: the table the keystream was made over
VARIABLE lcg_table

\* MagicKeyFactory.can_rewind: self._lcg_table[0][2] is not None
can_rewind == lcg_table[1][3] # None

\* (mutant) adds the multiplier of the row where the increment belongs
_transform_adds_multiplier(key) == Add32(Mul32(key, lcg_table[1][1]), lcg_table[1][1])

_transform(key) == Add32(Mul32(key, lcg_table[1][1]), lcg_table[1][2])

_transform_backwards(key) == Mul32(Sub32(key, lcg_table[1][2]), lcg_table[1][3])

\* The loops of _transformn / _transformn_backwards.  The result is the
\* pair <<exception or "ok", key>>: LCG_TABLE[bitpos] raises IndexError once
\* bitpos leaves the table, with the rows applied so far kept in self.key.
RECURSIVE TransformnLoop(_, _, _)
TransformnLoop(key, n, bitpos) ==
    IF n = 0 THEN <<"ok", key>>
    ELSE IF n % 2 = 1
         THEN IF bitpos >= Len(LCG_TABLE) THEN <<"IndexError", key>>
              ELSE LET k == Add32(Mul32(key, LCG_TABLE[bitpos + 1][1]), LCG_TABLE[bitpos + 1][2])
                   IN  IF k[1] < Half      \* (always: the key is computed before the loop goes on)
                       THEN TransformnLoop(k, n \div 2, bitpos + 1)
                       ELSE <<"ok", k>>
         ELSE TransformnLoop(key, n \div 2, bitpos + 1)

\* (mutant) starts at the table row of bit 1
_transformn_from_row_one(key, n) == TransformnLoop(key, n, 1)

_transformn(key, n) == TransformnLoop(key, n, 0)

RECURSIVE TransformnBackwardsLoop(_, _, _)
TransformnBackwardsLoop(key, n, bitpos) ==
    IF n = 0 THEN <<"ok", key>>
    ELSE IF n % 2 = 1
         THEN IF bitpos >= Len(LCG_TABLE) THEN <<"IndexError", key>>
              ELSE LET k == Mul32(Sub32(key, LCG_TABLE[bitpos + 1][2]), LCG_TABLE[bitpos + 1][3])
                   IN  IF k[1] < Half      \* (always: the key is computed before the loop goes on)
                       THEN TransformnBackwardsLoop(k, n \div 2, bitpos + 1)
                       ELSE <<"ok", k>>
         ELSE TransformnBackwardsLoop(key, n \div 2, bitpos + 1)

\* (mutant) walks the rows with the forward step
_transformn_backwards_forward_step(key, n) ==
    IF ~can_rewind THEN <<"TypeError", key>>
    ELSE TransformnLoop(key, n, 0)

_transformn_backwards(key, n) ==
    IF ~can_rewind THEN <<"TypeError", key>>
    ELSE TransformnBackwardsLoop(key, n, 0)

\* ------------------------------------------------------------------------
\* crypto.py: XORer over the stream's FileIO
\* ------------------------------------------------------------------------
Min(a, b) == IF a < b THEN a ELSE b

Max(a, b) == IF a < b THEN b ELSE a

Xor32(x, y) == <<XorBits(x[1], y[1], 16), XorBits(x[2], y[2], 16)>>

\* FileIO.readinto: the number of bytes a read of n bytes at raw position p
\* of file f gets
readinto(f, p, n) == IF p >= Len(f) THEN 0 ELSE Min(n, Len(f) - p)

\* the keys successive get_next() calls return from key k, followed by the
\* key the factory is left with: n + 1 words
RECURSIVE KeysOver(_, _, _)
KeysOver(table, k, n) ==
    IF n = 0 THEN <<k>>
    ELSE LET nk == Add32(Mul32(k, table[1][1]), table[1][2])
         IN  IF nk[1] < Half THEN <<k>> \o KeysOver(table, nk, n - 1) ELSE <<k>>

\* get_next steps over the factory's own table
KeyRun(k, n) == KeysOver(lcg_table, k, n)

\* the classes of magickey_obj an XORer is handed
LcgFactory == "MagicKeyFactory"

StaticFactory == "StaticMagicKeyFactory"

\* the keys n get_next() calls return from key k, followed by the key the
\* factory is left with; StaticMagicKeyFactory.get_next returns self.key
Keys(factory, k, n) ==
    IF factory = StaticFactory THEN [i \in 1 .. n + 1 |-> k] ELSE KeyRun(k, n)

\* (mutant) never steps back
rollback_does_nothing(factory, k) == k

\* magickey_obj.one_step_rollback(): StaticMagicKeyFactory's does nothing
rollback(factory, k) ==
    IF factory = StaticFactory THEN k ELSE _transform_backwards(k)

\* the little-endian 32-bit word w (1, 2, ...) of file f after raw position p
WordAt(f, p, w) ==
    W32(f[p + 4 * w] * 256 + f[p + 4 * w - 1], f[p + 4 * w - 2] * 256 + f[p + 4 * w - 3])

\* XORer.read_8bits(count) / read_data_8bit(count): io_obj.read(count) gets
\* what is left of the file when that is less
read_8bits(factory, f, p, k, count) ==
    LET n    == readinto(f, p, count)
        keys == Keys(factory, k, n)
    IN  [data |-> [i \in 1 .. n |-> Xor8(f[p + i], keys[i][2] % 256)],
         key  |-> keys[n + 1],
         pos  |-> p + n]

\* XORer.read_32bits(count): the exception or "none", the words returned,
\* the key and the raw position the call leaves.  After a short read the
\* Struct is made for actual_length // 4 words and unpack is handed the
\* whole buffer of 4 * count bytes.
read_32bits(factory, f, p, k, count) ==
    LET length        == 4 * count
        actual_length == readinto(f, p, length)
        new_count     == IF actual_length # length
                         THEN 0 - ((0 - (actual_length \div 4))) ELSE count
        keys          == Keys(factory, k, new_count)
    IN  IF actual_length % 4 # 0
        THEN [exc |-> "AssertionError", data |-> <<>>, key |-> k, pos |-> p + actual_length]
        ELSE IF 4 * new_count # length
        THEN [exc |-> "struct.error", data |-> <<>>, key |-> k, pos |-> p + actual_length]
        ELSE [exc  |-> "none",
              data |-> [w \in 1 .. new_count |-> Xor32(WordAt(f, p, w), keys[w])],
              key  |-> keys[new_count + 1],
              pos  |-> p + actual_length]

\* XORer.read_32bits_unaligned(count_bytes, left_offset) on file f at raw
\* position p with the factory's key at k: the bytes returned, the key and
\* the raw position it leaves
unaligned(factory, f, p, k, count_bytes, left_offset) ==
    LET count      == 0 - ((0 - (count_bytes + left_offset)) \div 4)
        bytes_read == readinto(f, p, count_bytes)
        buf        == [i \in 1 .. 4 * count |->
                          IF i - 1 >= left_offset /\ i - 1 < left_offset + bytes_read
                          THEN f[p + (i - 1 - left_offset) + 1] ELSE 0]
        unpacked   == [w \in 1 .. count |->
                          W32(buf[4 * w] * 256 + buf[4 * w - 1],
                              buf[4 * w - 2] * 256 + buf[4 * w - 3])]
        keys       == Keys(factory, k, count)
        xored      == [w \in 1 .. count |-> Xor32(unpacked[w], keys[w])]
        buf_result == [i \in 1 .. 4 * count |->
                          ByteOf(xored[((i - 1) \div 4) + 1], (i - 1) % 4)]
    IN  [data |-> SubSeq(buf_result, left_offset + 1, left_offset + count_bytes),
         key  |-> IF 4 * count # left_offset + count_bytes
                  THEN rollback(factory, keys[count + 1])
                  ELSE keys[count + 1],
         pos  |-> p + bytes_read]

\* read_32bits_unaligned of the XORer a File makes, over a MagicKeyFactory
read_32bits_unaligned(f, p, k, count_bytes, left_offset) ==
    unaligned(LcgFactory, f, p, k, count_bytes, left_offset)

\* ------------------------------------------------------------------------
\* core.py: File
\* ------------------------------------------------------------------------
SEEK_SET == 0

SEEK_CUR == 1

SEEK_END == 2

\* (mutant) hands a size larger than what is left straight on
read_count_unclamped(size, vtell, length) ==
    IF size < 0 THEN length - vtell ELSE size

\* File.read / File.readall: the byte count handed to _read_data_32bit
read_count(size, vtell, length) ==
    IF size < 0 \/ size > length - vtell THEN length - vtell ELSE size

\* File._read_data_32bit(count) at raw position p, entry base b
_read_data_32bit(f, p, k, b, count) ==
    IF count <= 0 THEN [data |-> <<>>, key |-> k, pos |-> p]
    ELSE read_32bits_unaligned(f, p, k, count, (p - b) % 4)

\* (mutant) tests absolute seeks only
negative_seek_absolute_only(offset, whence, vtell, length) ==
    whence = SEEK_SET /\ offset < 0

\* the test File.seek makes before it touches anything
negative_seek(offset, whence, vtell, length) ==
    \/ whence = SEEK_SET /\ offset < 0
    \/ whence = SEEK_CUR /\ offset + vtell < 0
    \/ whence = SEEK_END /\ offset + length < 0

\* (mutant) takes the block of the offset alone
_seek_to_block_absolute_of_offset(base_offset, seek_offset) == seek_offset \div 4

_seek_to_block_absolute(base_offset, seek_offset) == (base_offset + seek_offset) \div 4

\* (mutant) skips to the target block without the reset
_rewind_or_reset_skip_no_reset(k, s, from_block, to_block) ==
    IF ~(to_block <= from_block) THEN <<"AssertionError", k>>
    ELSE IF to_block >= from_block \div 2
         THEN _transformn_backwards(k, from_block - to_block)
         ELSE _transformn(k, to_block)

\* File.seek._rewind_or_reset_skip on a keystream with key k and seed s
_rewind_or_reset_skip(k, s, from_block, to_block) ==
    IF ~(to_block <= from_block) THEN <<"AssertionError", k>>
    ELSE IF to_block >= from_block \div 2
         THEN _transformn_backwards(k, from_block - to_block)
         ELSE _transformn(s, to_block)

\* the "crazy magickey stuff" of File.seek: <<exception or "ok", key>>
seek_key(k, s, offset, whence, vtell, length) ==
    LET block_count == offset \div 4
        cur_block   == vtell \div 4
    IN  IF whence = SEEK_SET /\ block_count >= cur_block
            THEN _transformn(k, block_count - cur_block)
        ELSE IF whence = SEEK_SET /\ block_count < cur_block
            THEN _rewind_or_reset_skip(k, s, cur_block, block_count)
        ELSE IF whence = SEEK_CUR /\ block_count >= 0
            THEN _transformn(k, ((vtell % 4) + offset) \div 4)
        ELSE IF whence = SEEK_CUR /\ block_count < 0
            THEN _rewind_or_reset_skip(k, s, cur_block,
                                       _seek_to_block_absolute(vtell, offset))
        ELSE IF whence = SEEK_END
            THEN _rewind_or_reset_skip(k, s, length \div 4,
                                       _seek_to_block_absolute(length, offset))
        ELSE <<"ok", k>>

\* the raw position super().seek(offset_real, whence) asks for
seek_raw(f, p, b, offset, whence) ==
    IF whence = SEEK_SET THEN offset + b
    ELSE IF whence = SEEK_CUR THEN p + offset
    ELSE Len(f) + offset

\* the end of File.seek: r is what the keystream moves left (exception or
\* "ok", key), raw the position super().seek is asked for
seek_result(r, raw, p) ==
    IF r[1] # "ok" THEN [exc |-> r[1], key |-> r[2], pos |-> p]
    ELSE IF raw < 0 THEN [exc |-> "EINVAL", key |-> r[2], pos |-> p]
    ELSE [exc |-> "ok", key |-> r[2], pos |-> raw]

\* File.seek(offset, whence): the exception or "ok", the key and the raw
\* position the call leaves
File_seek(f, p, k, s, b, length, offset, whence) ==
    IF negative_seek(offset, whence, p - b, length)
    THEN [exc |-> "EINVAL", key |-> k, pos |-> p]
    ELSE seek_result(seek_key(k, s, offset, whence, p - b, length),
                     seek_raw(f, p, b, offset, whence), p)

\* ------------------------------------------------------------------------
\* Path strings.  A string is the sequence of its characters; the paths of
\* the model have no drive letter and no UNC prefix.
\* ------------------------------------------------------------------------
RECURSIVE SplitLoop(_, _, _)
SplitLoop(str, sep, cur) ==
    IF str = <<>> THEN <<cur>>
    ELSE IF Head(str) = sep THEN <<cur>> \o SplitLoop(Tail(str), sep, <<>>)
    ELSE SplitLoop(Tail(str), sep, Append(cur, Head(str)))

\* str.split(sep)
Split(str, sep) == SplitLoop(str, sep, <<>>)

\* sep.join(comps)
RECURSIVE Join(_, _)
Join(comps, sep) ==
    IF comps = <<>> THEN <<>>
    ELSE IF Len(comps) = 1 THEN comps[1]
    ELSE comps[1] \o <<sep>> \o Join(Tail(comps), sep)

\* str.lstrip(ch), str.rstrip(ch)
RECURSIVE LStrip(_, _)
LStrip(str, ch) == IF str # <<>> /\ Head(str) = ch THEN LStrip(Tail(str), ch) ELSE str

RECURSIVE RStrip(_, _)
RStrip(str, ch) ==
    IF str # <<>> /\ str[Len(str)] = ch THEN RStrip(SubSeq(str, 1, Len(str) - 1), ch) ELSE str

CurDir == <<".">>

ParDir == <<".", ".">>

\* the loop of posixpath.normpath over the components
RECURSIVE PosixNormLoop(_, _, _)
PosixNormLoop(comps, new_comps, initial_slashes) ==
    IF comps = <<>> THEN new_comps
    ELSE LET comp == Head(comps)
         IN  IF comp = <<>> \/ comp = CurDir
                 THEN PosixNormLoop(Tail(comps), new_comps, initial_slashes)
             ELSE IF \/ comp # ParDir
                     \/ (initial_slashes = 0 /\ new_comps = <<>>)
                     \/ (new_comps # <<>> /\ new_comps[Len(new_comps)] = ParDir)
                 THEN PosixNormLoop(Tail(comps), Append(new_comps, comp), initial_slashes)
             ELSE IF new_comps # <<>>
                 THEN PosixNormLoop(Tail(comps), SubSeq(new_comps, 1, Len(new_comps) - 1),
                                    initial_slashes)
             ELSE PosixNormLoop(Tail(comps), new_comps, initial_slashes)

posixpath_normpath(path) ==
    IF path = <<>> THEN CurDir
    ELSE LET initial_slashes ==
                 IF Head(path) # "/" THEN 0
                 ELSE IF Len(path) >= 2 /\ path[2] = "/" /\ ~(Len(path) >= 3 /\ path[3] = "/")
                      THEN 2 ELSE 1
             joined == Join(PosixNormLoop(Split(path, "/"), <<>>, initial_slashes), "/")
             res    == [i \in 1 .. initial_slashes |-> "/"] \o joined
         IN  IF res = <<>> THEN CurDir ELSE res

\* the while loop of ntpath.normpath: comps with index i (from 0)
RECURSIVE NtNormLoop(_, _, _)
NtNormLoop(comps, i, rooted) ==
    IF i >= Len(comps) THEN comps
    ELSE LET c == comps[i + 1]
         IN  IF c = <<>> \/ c = CurDir
                 THEN NtNormLoop(SubSeq(comps, 1, i) \o SubSeq(comps, i + 2, Len(comps)), i, rooted)
             ELSE IF c = ParDir
                 THEN IF i > 0 /\ comps[i] # ParDir
                          THEN NtNormLoop(SubSeq(comps, 1, i - 1) \o SubSeq(comps, i + 2, Len(comps)),
                                          i - 1, rooted)
                      ELSE IF i = 0 /\ rooted
                          THEN NtNormLoop(SubSeq(comps, 2, Len(comps)), i, rooted)
                      ELSE NtNormLoop(comps, i + 1, rooted)
             ELSE NtNormLoop(comps, i + 1, rooted)

ntpath_normpath(path) ==
    LET replaced == [i \in 1 .. Len(path) |-> IF path[i] = "/" THEN "\\" ELSE path[i]]
        rooted   == replaced # <<>> /\ Head(replaced) = "\\"
        prefix   == IF rooted THEN <<"\\">> ELSE <<>>
        comps    == NtNormLoop(Split(LStrip(replaced, "\\"), "\\"), 0, rooted)
    IN  prefix \o Join(IF ~rooted /\ comps = <<>> THEN <<CurDir>> ELSE comps, "\\")

\* the index ntpath.split cuts at: just after the last separator
RECURSIVE LastSep(_, _)
LastSep(str, i) ==
    IF i = 0 \/ str[i] = "\\" \/ str[i] = "/" THEN i ELSE LastSep(str, i - 1)

\* ntpath.split(p) -> <<head, tail>>
ntpath_split(path) ==
    LET i     == LastSep(path, Len(path))
        head  == SubSeq(path, 1, i)
        strip == RStrip(RStrip(head, "\\"), "/")
    IN  <<IF strip = <<>> THEN head ELSE strip, SubSeq(path, i + 1, Len(path))>>

\* ------------------------------------------------------------------------
\* core.py: Archive, the inode table.  Inode i is inodes[i + 1].
\* ------------------------------------------------------------------------
ROOT_INODE == 1

NoInode == [type |-> "None"]

DirEntry(id, name) == [id |-> id, name |-> name]

\* Archive.__init__ before _build_directory_tree
InitialInodes ==
    [i \in 1 .. ROOT_INODE |-> NoInode]
        \o <<[type |-> "d",
              children |-> <<DirEntry(ROOT_INODE, CurDir), DirEntry(ROOT_INODE, ParDir)>>]>>

\* A lookup result: [exc, id], id = -1 for None
Found(id) == [exc |-> "none", id |-> id]

NotFound == [exc |-> "none", id |-> 0 - 1]

Failed(exc) == [exc |-> exc, id |-> 0 - 1]

RECURSIVE FirstNamed(_, _)
FirstNamed(children, name) ==
    IF children = <<>> THEN NotFound
    ELSE IF Head(children).name = name THEN Found(Head(children).id)
    ELSE FirstNamed(Tail(children), name)

\* Archive.lookup(parent_inode, name), through readdir(parent_inode)
lookup(tbl, parent_inode, name) ==
    IF "children" \notin DOMAIN tbl[parent_inode + 1] THEN Failed("KeyError")
    ELSE FirstNamed(tbl[parent_inode + 1].children, name)

\* (mutant) yields the whole directory whatever the offset
readdir_from_start(tbl, inode, with_offset, offset) ==
    IF inode + 1 > Len(tbl) THEN [exc |-> "IndexError", val |-> <<>>]
    ELSE IF tbl[inode + 1] = NoInode THEN [exc |-> "TypeError", val |-> <<>>]
    ELSE IF "children" \notin DOMAIN tbl[inode + 1] THEN [exc |-> "KeyError", val |-> <<>>]
    ELSE [exc |-> "none", val |-> tbl[inode + 1].children]

\* Archive.readdir(inode) (with_offset FALSE) and readdir(inode, offset):
\* the exception or "none" and the entries yielded; children[offset:] is a
\* Python slice, which counts a negative offset from the end
readdir(tbl, inode, with_offset, offset) ==
    IF inode + 1 > Len(tbl) THEN [exc |-> "IndexError", val |-> <<>>]
    ELSE IF tbl[inode + 1] = NoInode THEN [exc |-> "TypeError", val |-> <<>>]
    ELSE IF "children" \notin DOMAIN tbl[inode + 1] THEN [exc |-> "KeyError", val |-> <<>>]
    ELSE IF ~with_offset THEN [exc |-> "none", val |-> tbl[inode + 1].children]
    ELSE [exc |-> "none",
          val |-> SubSeq(tbl[inode + 1].children,
                         (IF offset < 0 THEN Max(Len(tbl[inode + 1].children) + offset, 0)
                          ELSE Min(offset, Len(tbl[inode + 1].children))) + 1,
                         Len(tbl[inode + 1].children))]

RECURSIVE _lookup_r(_, _, _)
_lookup_r(tbl, dirs, from_inode) ==
    IF Len(dirs) = 1 THEN lookup(tbl, from_inode, dirs[1])
    ELSE LET next_inode == lookup(tbl, from_inode, dirs[1])
         IN  IF next_inode.exc # "none" THEN next_inode
             ELSE IF next_inode.id = 0 - 1 THEN NotFound
             ELSE _lookup_r(tbl, Tail(dirs), next_inode.id)

lookup_r(tbl, path) == _lookup_r(tbl, Split(posixpath_normpath(path), "/"), ROOT_INODE)

isdir(tbl, inode) == tbl[inode + 1].type = "d"

isfile(tbl, inode) == tbl[inode + 1].type = "f"

\* (mutant) enters the new inode in its parent twice
_mknod_two_links(tbl, parent_inode, name, entry_type) ==
    LET appended == Append(tbl, [type |-> entry_type])
        inode    == Len(appended) - 1
    IN  IF "children" \notin DOMAIN appended[parent_inode + 1]
        THEN <<"KeyError", appended, inode>>
        ELSE <<"ok",
               [appended EXCEPT ![parent_inode + 1].children =
                   Append(Append(@, DirEntry(inode, name)), DirEntry(inode, name))],
               inode>>

\* _build_directory_tree._mknod: <<exception or "ok", table, new inode>>
_mknod(tbl, parent_inode, name, entry_type) ==
    LET appended == Append(tbl, [type |-> entry_type])
        inode    == Len(appended) - 1
    IN  IF "children" \notin DOMAIN appended[parent_inode + 1]
        THEN <<"KeyError", appended, inode>>
        ELSE <<"ok",
               [appended EXCEPT ![parent_inode + 1].children = Append(@, DirEntry(inode, name))],
               inode>>

_add_file_entry(tbl, parent_inode, name, offset, size, magickey) ==
    LET r == _mknod(tbl, parent_inode, name, "f")
    IN  IF r[1] # "ok" THEN r
        ELSE <<"ok",
               [r[2] EXCEPT ![r[3] + 1] =
                   [type |-> "f", offset |-> offset, size |-> size, magickey |-> magickey]],
               r[3]>>

_mkdir(tbl, parent_inode, name) ==
    LET r == _mknod(tbl, parent_inode, name, "d")
    IN  IF r[1] # "ok" THEN r
        ELSE <<"ok",
               [r[2] EXCEPT ![r[3] + 1] =
                   [type |-> "d",
                    children |-> <<DirEntry(r[3], CurDir), DirEntry(parent_inode, ParDir)>>]],
               r[3]>>

\* the for loop of _nt_mkdir_p over the components left
RECURSIVE MkdirLoop(_, _, _)
MkdirLoop(tbl, comps, cur_inode) ==
    IF comps = <<>> THEN <<"ok", tbl, cur_inode>>
    ELSE LET next_inode == lookup(tbl, cur_inode, Head(comps))
         IN  IF next_inode.exc # "none" THEN <<next_inode.exc, tbl, cur_inode>>
             ELSE IF next_inode.id # 0 - 1 THEN MkdirLoop(tbl, Tail(comps), next_inode.id)
             ELSE LET r == _mkdir(tbl, cur_inode, Head(comps))
                  IN  IF r[1] # "ok" THEN r ELSE MkdirLoop(r[2], Tail(comps), r[3])

_nt_mkdir_p(tbl, path) == MkdirLoop(tbl, Split(ntpath_normpath(path), "\\"), ROOT_INODE)

\* one round of the for loop of _build_directory_tree, for the entry record
\* md_entry = <<path, offset, size, seed>>
AddRecord(tbl, md_entry) ==
    LET sp == ntpath_split(ntpath_normpath(md_entry[1]))
        d  == _nt_mkdir_p(tbl, sp[1])
    IN  IF d[1] # "ok" THEN d
        ELSE _add_file_entry(d[2], d[3], sp[2], md_entry[2], md_entry[3], md_entry[4])

\* _build_directory_tree over the records the parser yields:
\* <<exception or "ok", table>>
RECURSIVE BuildLoop(_, _)
BuildLoop(tbl, records) ==
    IF records = <<>> THEN <<"ok", tbl>>
    ELSE LET r == AddRecord(tbl, Head(records))
         IN  IF r[1] # "ok" THEN <<r[1], r[2]>> ELSE BuildLoop(r[2], Tail(records))

_build_directory_tree(records) == BuildLoop(InitialInodes, records)

\* ------------------------------------------------------------------------
\* core.py: Archive._parse_metadata.  Bytes are numbers; a filename is the
\* sequence of its characters, as the tree builder takes it.
\* ------------------------------------------------------------------------
\* the characters filenames are made of here, with their UTF-8 bytes
CharCodes ==
    <<<<"a", 97>>, <<"b", 98>>, <<"c", 99>>, <<"d", 100>>, <<"e", 101>>,
      <<"x", 120>>, <<"z", 122>>, <<"\\", 92>>, <<"/", 47>>, <<".", 46>>>>

Ord(c) == CharCodes[CHOOSE i \in 1 .. Len(CharCodes) : CharCodes[i][1] = c][2]

\* bytes.decode('utf-8') of one byte of CharCodes ("?" for any other)
Chr(b) ==
    IF \E i \in 1 .. Len(CharCodes) : CharCodes[i][2] = b
    THEN CharCodes[CHOOSE i \in 1 .. Len(CharCodes) : CharCodes[i][2] = b][1]
    ELSE "?"

decode(bytes) == [i \in 1 .. Len(bytes) |-> Chr(bytes[i])]

\* the number a decrypted '<I' word is (words below 2^31 only)
ToInt(w) == w[1] * Half + w[2]

\* what a parser ended with: the exception or "ok", the records it yielded
\* (<<fn, offset, size, seed>>), its magickey's key and the raw position
Parsed(exc, records, k, p) == [exc |-> exc, records |-> records, key |-> k, pos |-> p]

\* (mutant) takes the key as it was before f_size was read
V1Record_key_before_size(fn, f_size) ==
    <<decode(fn.data), f_size.pos, ToInt(f_size.data[1]), fn.key>>

\* what _parser_v1 yields once fn and f_size are read:
\* fn.decode('utf-8'), arc.tell(), f_size, magickey.get_key()
V1Record(fn, f_size) ==
    <<decode(fn.data), f_size.pos, ToInt(f_size.data[1]), f_size.key>>

\* what one turn of a parser's loop ends with: the exception, "yield" with
\* the record yielded, or "break"; the magickey's key, the raw position,
\* and the bytes the parser skips when it is resumed after the yield
Turn(exc, rec, k, p, skipped) ==
    [exc |-> exc, rec |-> rec, key |-> k, pos |-> p, skipped |-> skipped]

\* One turn of the while loop of _parser_v1, one definition per read: each
\* takes what the read before it returned.
V1Yield(fn, f_size) ==
    IF f_size.exc # "none" THEN Turn(f_size.exc, <<>>, f_size.key, f_size.pos, 0)
    ELSE Turn("yield", V1Record(fn, f_size), f_size.key, f_size.pos,
              ToInt(f_size.data[1]))                  \* arc.seek(f_size, SEEK_CUR)

V1ReadSize(f, fn) == V1Yield(fn, read_32bits(LcgFactory, f, fn.pos, fn.key, 1))

V1ReadName(f, fn_len) ==
    IF fn_len.exc # "none" THEN Turn(fn_len.exc, <<>>, fn_len.key, fn_len.pos, 0)
    ELSE V1ReadSize(f, read_8bits(LcgFactory, f, fn_len.pos, fn_len.key,
                                  ToInt(fn_len.data[1])))

V1Turn(f, p, k) == V1ReadName(f, read_32bits(LcgFactory, f, p, k, 1))

\* The while loop of _parser_v1, run until it ends
RECURSIVE ParserV1Loop(_, _, _, _)
V1Resume(f, turn, records) ==
    IF turn.exc # "yield" THEN Parsed(turn.exc, records, turn.key, turn.pos)
    ELSE ParserV1Loop(f, turn.pos + turn.skipped, turn.key, Append(records, turn.rec))

ParserV1Loop(f, p, k, records) ==
    IF ~(p < Len(f)) THEN Parsed("ok", records, k, p)
    ELSE V1Resume(f, V1Turn(f, p, k), records)

\* _parser_v1(arc), entered with the raw cursor after the 8 header bytes
_parser_v1(f) == ParserV1Loop(f, 8, DEFAULT_IV, <<>>)

\* (mutant) derives the key for a Fux2Pack header too
metadata_key_always_derived(metadata_key_seed, is_fux2pack) ==
    Add32(Mul32(metadata_key_seed, ToW32(9)), ToW32(3))

metadata_key(metadata_key_seed, is_fux2pack) ==
    IF ~is_fux2pack THEN Add32(Mul32(metadata_key_seed, ToW32(9)), ToW32(3))
    ELSE metadata_key_seed

\* (mutant) ends the table at the first entry of size 0
end_of_table_by_size(head) == ToInt(head.data[2]) = 0

\* if f_offset == 0: break
end_of_table(head) == ToInt(head.data[1]) = 0

\* One turn of the while True loop of _parser_v3: head is what
\* read_32bits(4) returned, fn what read_32bits_unaligned(fn_len) returned.
V3Yield(head, fn) ==
    Turn("yield",
         <<decode(fn.data), ToInt(head.data[1]), ToInt(head.data[2]), head.data[3]>>,
         fn.key, fn.pos, 0)

V3ReadName(f, head) ==
    IF head.exc # "none" THEN Turn(head.exc, <<>>, head.key, head.pos, 0)
    ELSE IF end_of_table(head) THEN Turn("break", <<>>, head.key, head.pos, 0)
    ELSE V3Yield(head, unaligned(StaticFactory, f, head.pos, head.key,
                                 ToInt(head.data[4]), 0))

V3Turn(f, p, k) == V3ReadName(f, read_32bits(StaticFactory, f, p, k, 4))

\* The while True loop of _parser_v3, run until it ends
RECURSIVE ParserV3Loop(_, _, _, _)
V3Resume(f, turn, records) ==
    IF turn.exc = "break" THEN Parsed("ok", records, turn.key, turn.pos)
    ELSE IF turn.exc # "yield" THEN Parsed(turn.exc, records, turn.key, turn.pos)
    ELSE ParserV3Loop(f, turn.pos, turn.key, Append(records, turn.rec))

ParserV3Loop(f, p, k, records) == V3Resume(f, V3Turn(f, p, k), records)

\* _parser_v3(arc, is_fux2pack); struct.unpack fails on fewer than 4 bytes
_parser_v3(f, is_fux2pack) ==
    IF readinto(f, 8, 4) < 4 THEN Parsed("struct.error", <<>>, None, 8 + readinto(f, 8, 4))
    ELSE ParserV3Loop(f, 12, metadata_key(WordAt(f, 8, 1), is_fux2pack), <<>>)

Magic == <<82, 71, 83, 83, 65, 68>>                \* b'RGSSAD'

Fux2Pack == <<70, 117, 120, 50, 80, 97, 99, 107>>  \* b'Fux2Pack'

version_known(ver) == ver \in {1, 2, 3}

\* _parse_metadata's magic check: the exception it raises or the parser it
\* hands the file to ("Fux2Pack" for _parser_v3 with is_fux2pack).
\* '<6sxB' takes bytes 0..5 as magic, skips byte 6 and takes byte 7 as ver.
magic_check(f) ==
    IF readinto(f, 0, 8) < 8 THEN "struct.error"
    ELSE LET magic_raw == SubSeq(f, 1, 8)
             magic     == SubSeq(f, 1, 6)
             ver       == f[8]
         IN  IF (magic # Magic \/ ~version_known(ver)) /\ magic_raw # Fux2Pack
                 THEN "RuntimeError"
             ELSE IF magic_raw = Fux2Pack THEN "Fux2Pack"
             ELSE IF ver \in {1, 2} THEN "_parser_v1"
             ELSE IF ver = 3 THEN "_parser_v3"
             ELSE "AssertionError"

\* yield from the parser chosen
yield_from(f, chosen) ==
    IF chosen = "_parser_v1" THEN _parser_v1(f)
    ELSE IF chosen = "_parser_v3" THEN _parser_v3(f, FALSE)
    ELSE IF chosen = "Fux2Pack" THEN _parser_v3(f, TRUE)
    ELSE Parsed(chosen, <<>>, None, readinto(f, 0, 8))

_parse_metadata(f) == yield_from(f, magic_check(f))

\* Archive.__init__(arc_filename): _build_directory_tree takes the records
\* as the parser yields them, so an exception of the tree builder comes
\* before one the parser raises later.  <<exception or "ok", table>>
InitResult(exc, b) == IF b[1] # "ok" THEN b ELSE <<exc, b[2]>>

Archive_init(parsed) == InitResult(parsed.exc, _build_directory_tree(parsed.records))

\* Archive.open(path): the exception or "ok", and the inode opened
Archive_open(tbl, path) ==
    LET inode == lookup_r(tbl, path)
    IN  IF inode.exc # "none" THEN inode
        ELSE IF inode.id = 0 - 1 THEN Failed("FileNotFoundError")
        ELSE IF isdir(tbl, inode.id) THEN Failed("IsADirectoryError")
        ELSE inode

\* ------------------------------------------------------------------------
\* State
\* ------------------------------------------------------------------------
VARIABLES
    key,            \* MagicKeyFactory.key
    iv,             \* MagicKeyFactory.iv
    pos,            \* raw cursor of the stream's FileIO (tell_real)
    vfile_base,     \* File.vfile_base
    vfile_length,   \* File.vfile_length
    arc,            \* the bytes of the archive file
    call,           \* the last call made: [op, arg, whence]
    ret,            \* what it returned: [exc, val]
    steps,          \* number of calls made so far
    md,             \* the entry records _parse_metadata yields
    built,          \* how Archive.__init__ ended: "ok", an exception, "none" without Archive
    inodes,         \* Archive.inodes
    _fh,            \* FileHandleTable._fh: the data of every live handle
    _recycled_ids,  \* FileHandleTable._recycled_ids
    _last_avaliable_id,     \* FileHandleTable._last_avaliable_id
    _lock,          \* FileHandleTable._lock: the set of the thread holding it
    threads,        \* the call each thread is in: [op, fh, data, at, ret]
    listing         \* what the reader of a directory handle was given so far

vars ==
    <<key, iv, pos, vfile_base, vfile_length, arc, call, ret, steps, md, built, inodes,
      lcg_table, _fh, _recycled_ids, _last_avaliable_id, _lock, threads, listing>>

fileVars == <<pos, vfile_base, vfile_length, arc>>

archiveVars == <<md, built, inodes>>

NoArchive == md = <<>> /\ built = "none" /\ inodes = <<>>

tableVars == <<_fh, _recycled_ids, _last_avaliable_id, _lock>>

fuseVars == <<tableVars, threads, listing>>

\* FileHandleTable.__init__
NoHandles ==
    /\ _fh = <<>>
    /\ _recycled_ids = <<>>
    /\ _last_avaliable_id = 0
    /\ _lock = {}

\* no adapter: an empty handle table nobody calls
NoFuse == NoHandles /\ threads = <<>> /\ listing = <<>>

\* MagicKeyFactory(iv): lcg_table defaults to LCG_TABLE
DefaultTable == lcg_table = LCG_TABLE

Call(op, arg, whence) == [op |-> op, arg |-> arg, whence |-> whence]

Returned(val) == [exc |-> "none", val |-> val]

Raised(exc) == [exc |-> exc, val |-> <<>>]

\* ------------------------------------------------------------------------
\* Bounds
\* ------------------------------------------------------------------------
MaxSteps == 2

MaxCount == 6

MaxBit == 8

ClaimBits == 20

\* block counts handed to skip and rewind: the small ones, counts around a
\* high table row, the largest count the table covers and the first it
\* does not
Counts ==
    (0 .. MaxCount) \cup {2 ^ MaxBit - 1} \cup {2 ^ b : b \in MaxBit .. ClaimBits}
        \cup {2 ^ TableBits - 1, 2 ^ TableBits}

Seeds == {DEFAULT_IV, W32(0, 0), W32(65535, 65535), W32(4660, 22136)}

\* ------------------------------------------------------------------------
\* The keystream on its own: a MagicKeyFactory driven through its methods
\* ------------------------------------------------------------------------
KeyInit ==
    /\ DefaultTable /\ NoFuse
    /\ iv \in Seeds
    /\ key = iv                       \* __init__ ends with reset()
    /\ pos = 0 /\ vfile_base = 0 /\ vfile_length = 0 /\ arc = <<>>
    /\ NoArchive
    /\ call = Call("init", 0, 0)
    /\ ret = Returned(<<>>)
    /\ steps = 0

get_next ==
    /\ steps < MaxSteps
    /\ key' = _transform(key)
    /\ call' = Call("get_next", 0, 0)
    /\ ret' = Returned(key)
    /\ steps' = steps + 1
    /\ UNCHANGED <<lcg_table, fuseVars, iv, fileVars, archiveVars>>

skip ==
    \E n \in Counts :
        /\ steps < MaxSteps
        /\ LET r == _transformn(key, n)
           IN  /\ key' = r[2]
               /\ ret' = IF r[1] = "ok" THEN Returned(<<>>) ELSE Raised(r[1])
        /\ call' = Call("skip", n, 0)
        /\ steps' = steps + 1
        /\ UNCHANGED <<lcg_table, fuseVars, iv, fileVars, archiveVars>>

rewind ==
    \E n \in Counts :
        /\ steps < MaxSteps
        /\ LET r == _transformn_backwards(key, n)
           IN  /\ key' = r[2]
               /\ ret' = IF r[1] = "ok" THEN Returned(<<>>) ELSE Raised(r[1])
        /\ call' = Call("rewind", n, 0)
        /\ steps' = steps + 1
        /\ UNCHANGED <<lcg_table, fuseVars, iv, fileVars, archiveVars>>

one_step_rollback ==
    /\ steps < MaxSteps
    /\ IF can_rewind
       THEN key' = _transform_backwards(key) /\ ret' = Returned(<<>>)
       ELSE key' = key /\ ret' = Raised("TypeError")
    /\ call' = Call("one_step_rollback", 0, 0)
    /\ steps' = steps + 1
    /\ UNCHANGED <<lcg_table, fuseVars, iv, fileVars, archiveVars>>

reset ==
    /\ steps < MaxSteps
    /\ key' = iv
    /\ call' = Call("reset", 0, 0)
    /\ ret' = Returned(<<>>)
    /\ steps' = steps + 1
    /\ UNCHANGED <<lcg_table, fuseVars, iv, fileVars, archiveVars>>

KeyNext == get_next \/ skip \/ rewind \/ one_step_rollback \/ reset

SpecKey == KeyInit /\ [][KeyNext]_vars

\* ------------------------------------------------------------------------
\* One File stream over an archive file
\* ------------------------------------------------------------------------
MaxFileSteps == 2

MaxPos == 10

MaxRead == 5

ArcSize == 13

EntryLen == 9

\* the archive file: ArcSize bytes, no two neighbours alike
ArcBytes == [i \in 1 .. ArcSize |-> (i * 67 + 29) % 256]

\* <<offset, size>> of the entry the stream is opened on: one whose payload
\* is followed by other bytes, one whose payload ends the file, a short one,
\* and one whose declared size overruns the file
Entries ==
    {<<2, EntryLen>>, <<ArcSize - EntryLen, EntryLen>>, <<3, 2>>,
     <<ArcSize - EntryLen + 3, EntryLen>>}

FileSeeds == {DEFAULT_IV, W32(4660, 22136)}

\* seeks far past the entry: block 2^MaxBit, and a block that uses the high table rows
FarOffsets == {4 * (2 ^ MaxBit) + 1, 4 * (2 ^ (TableBits - 1) - 8)}

\* the offsets tried with each whence (the far ones as absolute positions)
SeekOffsets(whence) ==
    ((0 - MaxPos - 1) .. MaxPos) \cup (IF whence = SEEK_SET THEN FarOffsets ELSE {})

ReadSizes == (0 - 1) .. MaxRead

FileInit ==
    /\ DefaultTable /\ NoFuse
    /\ arc = ArcBytes
    /\ \E e \in Entries : vfile_base = e[1] /\ vfile_length = e[2]
    /\ iv \in FileSeeds
    /\ key = iv
    /\ pos = vfile_base               \* File.__init__: super().seek(self.vfile_base)
    /\ NoArchive
    /\ call = Call("init", 0, 0)
    /\ ret = Returned(<<>>)
    /\ steps = 0

tell == pos - vfile_base

\* File.read(size)
ReadCall(size) ==
    /\ \E r \in {_read_data_32bit(arc, pos, key, vfile_base,
                                  read_count(size, tell, vfile_length))} :
           /\ key' = r.key
           /\ pos' = r.pos
           /\ ret' = Returned(r.data)
    /\ call' = Call("read", size, 0)
    /\ UNCHANGED <<lcg_table, fuseVars, iv, vfile_base, vfile_length, arc, archiveVars>>

\* File.seek(offset, whence)
SeekCall(offset, whence) ==
    /\ \E r \in {File_seek(arc, pos, key, iv, vfile_base, vfile_length, offset, whence)} :
           /\ r.pos - vfile_base <= MaxPos \/ (whence = SEEK_SET /\ offset \in FarOffsets)
           /\ key' = r.key
           /\ pos' = r.pos
           /\ ret' = IF r.exc = "ok" THEN Returned(<<r.pos - vfile_base>>)
                     ELSE Raised(r.exc)
    /\ call' = Call("seek", offset, whence)
    /\ UNCHANGED <<lcg_table, fuseVars, iv, vfile_base, vfile_length, arc, archiveVars>>

\* any entry, any whence: a bounded number of calls
read ==
    \E size \in ReadSizes :
        /\ steps < MaxFileSteps
        /\ ReadCall(size)
        /\ steps' = steps + 1

seek ==
    \E whence \in {SEEK_SET, SEEK_CUR, SEEK_END} : \E offset \in SeekOffsets(whence) :
        /\ steps < MaxFileSteps
        /\ SeekCall(offset, whence)
        /\ steps' = steps + 1

FileNext == read \/ seek

SpecFile == FileInit /\ [][FileNext]_vars

\* An entry that lies inside the archive file, reached by absolute seeks and
\* reads only, which is how the FUSE read handler (seek(off); read(size))
\* and any other SEEK_SET caller drive the stream; calls without limit.
InsideInit == FileInit /\ vfile_base + vfile_length <= Len(arc)

read_inside == \E size \in ReadSizes : ReadCall(size) /\ UNCHANGED steps

seek_set == \E offset \in SeekOffsets(SEEK_SET) : SeekCall(offset, SEEK_SET) /\ UNCHANGED steps

SeekSetNext == read_inside \/ seek_set

SpecSeekSet == InsideInit /\ [][SeekSetNext]_vars

\* The same entries driven by relative seeks and reads: File.seek(offset,
\* SEEK_CUR) from every position up to MaxCur, both directions, so that a
\* backward seek takes the rewind branch and the reset+skip branch.
MaxCur == 24

seek_cur ==
    \E offset \in (0 - MaxCur) .. MaxCur :
        /\ \E r \in {File_seek(arc, pos, key, iv, vfile_base, vfile_length, offset, SEEK_CUR)} :
               /\ r.pos - vfile_base <= MaxCur
               /\ key' = r.key
               /\ pos' = r.pos
               /\ ret' = IF r.exc = "ok" THEN Returned(<<r.pos - vfile_base>>)
                         ELSE Raised(r.exc)
        /\ call' = Call("seek", offset, SEEK_CUR)
        /\ UNCHANGED <<lcg_table, fuseVars, iv, vfile_base, vfile_length, arc, archiveVars, steps>>

SeekCurNext == read_inside \/ seek_cur

SpecSeekCur == InsideInit /\ [][SeekCurNext]_vars

\* A stream whose keystream was made over either table, MagicKeyFactory(iv)
\* or MagicKeyFactory(iv, tuple(lcg_gen(6, 3, 30))): the multiplier 6 has
\* no inverse modulo 2^32, so that factory's can_rewind is False.  The
\* stream is moved by seeks, its keystream by rewind and one_step_rollback.
NonInvertibleTable == lcg_gen(6, 3, TableBits)

NoRewindInit ==
    /\ lcg_table \in {LCG_TABLE, NonInvertibleTable}
    /\ NoFuse
    /\ arc = ArcBytes
    /\ vfile_base = 2 /\ vfile_length = EntryLen
    /\ iv \in FileSeeds
    /\ key = iv
    /\ pos = vfile_base
    /\ NoArchive
    /\ call = Call("init", 0, 0)
    /\ ret = Returned(<<>>)
    /\ steps = 0

NoRewindNext == seek \/ rewind \/ one_step_rollback

SpecNoRewind == NoRewindInit /\ [][NoRewindNext]_vars

\* ------------------------------------------------------------------------
\* One XORer over a MagicKeyFactory and the archive file, as _parser_v1 and
\* File make it, called directly
\* ------------------------------------------------------------------------
MaxXorSteps == 2

MaxBytes == 6

MaxWords == 3

\* where the raw cursor stands at first: far from the end of the file, and
\* with 6, 2 and no bytes left
XorStarts == {0, 3, ArcSize - 6, ArcSize - 2, ArcSize}

XorerInit ==
    /\ DefaultTable /\ NoFuse
    /\ arc = ArcBytes
    /\ pos \in XorStarts
    /\ iv \in FileSeeds
    /\ key = iv
    /\ vfile_base = 0 /\ vfile_length = 0
    /\ NoArchive
    /\ call = Call("init", 0, 0)
    /\ ret = Returned(<<>>)
    /\ steps = 0

\* xorer.read_32bits(count)
XORer_read_32bits ==
    \E count \in 0 .. MaxWords :
        /\ steps < MaxXorSteps
        /\ \E r \in {read_32bits(LcgFactory, arc, pos, key, count)} :
               /\ key' = r.key
               /\ pos' = r.pos
               /\ ret' = [exc |-> r.exc, val |-> r.data]
        /\ call' = Call("read_32bits", count, 0)
        /\ steps' = steps + 1
        /\ UNCHANGED <<lcg_table, fuseVars, iv, vfile_base, vfile_length, arc, archiveVars>>

\* xorer.read_8bits(count)
XORer_read_8bits ==
    \E count \in 0 .. MaxBytes :
        /\ steps < MaxXorSteps
        /\ \E r \in {read_8bits(LcgFactory, arc, pos, key, count)} :
               /\ key' = r.key
               /\ pos' = r.pos
               /\ ret' = Returned(r.data)
        /\ call' = Call("read_8bits", count, 0)
        /\ steps' = steps + 1
        /\ UNCHANGED <<lcg_table, fuseVars, iv, vfile_base, vfile_length, arc, archiveVars>>

\* xorer.read_32bits_unaligned(count_bytes, left_offset); the call recorded
\* keeps left_offset in its third field
XORer_read_32bits_unaligned ==
    \E count_bytes \in 0 .. MaxBytes : \E left_offset \in 0 .. 3 :
        /\ steps < MaxXorSteps
        /\ \E r \in {unaligned(LcgFactory, arc, pos, key, count_bytes, left_offset)} :
               /\ key' = r.key
               /\ pos' = r.pos
               /\ ret' = Returned(r.data)
        /\ call' = Call("read_32bits_unaligned", count_bytes, left_offset)
        /\ steps' = steps + 1
        /\ UNCHANGED <<lcg_table, fuseVars, iv, vfile_base, vfile_length, arc, archiveVars>>

XorerNext == XORer_read_32bits \/ XORer_read_8bits \/ XORer_read_32bits_unaligned

SpecXorer == XorerInit /\ [][XorerNext]_vars

\* ------------------------------------------------------------------------
\* Archive files, and the construction of an Archive from one
\* ------------------------------------------------------------------------
MaxEntries == 2

\* the sequences of at most n elements of S
RECURSIVE SeqsUpTo(_, _)
SeqsUpTo(S, n) ==
    IF n = 0 THEN {<<>>}
    ELSE LET shorter == SeqsUpTo(S, n - 1)
         IN  shorter \cup {Append(q, x) : q \in shorter, x \in S}

MaxCut == 3

\* struct.pack('<I', w)
Pack32(w) == <<ByteOf(w, 0), ByteOf(w, 1), ByteOf(w, 2), ByteOf(w, 3)>>

encode(name) == [i \in 1 .. Len(name) |-> Ord(name[i])]

\* n payload bytes (never decrypted while the table is parsed)
Payload(n) == [i \in 1 .. n |-> (i * 37 + 11) % 256]

\* the entries archives are packed from: <<filename, payload size, subkey>>
PackEntries ==
    {<<<<"a">>, 2, W32(4660, 22136)>>,
     <<<<"d", "\\", "b">>, 5, W32(0, 7)>>,
     <<<<"d", "\\", "c", "\\", "e">>, 0, W32(43981, 1)>>}

\* a v1/v2 entry table with its payloads, encrypted from key k on
RECURSIVE PackV1(_, _)
PackV1(entries, k) ==
    IF entries = <<>> THEN <<>>
    ELSE LET name == encode(Head(entries)[1])
             n    == Len(name)
             size == Head(entries)[2]
             keys == KeysOver(LCG_TABLE, k, n + 2)   \* the packer's keystream
         IN  Pack32(Xor32(ToW32(n), keys[1]))
               \o [i \in 1 .. n |-> Xor8(name[i], keys[i + 1][2] % 256)]
               \o Pack32(Xor32(ToW32(size), keys[n + 2]))
               \o Payload(size)
               \o PackV1(Tail(entries), keys[n + 3])

\* the records of a v3 entry table under key k, payloads from offset on
RECURSIVE PackV3Table(_, _, _)
PackV3Table(entries, k, offset) ==
    IF entries = <<>> THEN <<>>
    ELSE LET name == encode(Head(entries)[1])
             size == Head(entries)[2]
         IN  Pack32(Xor32(ToW32(offset), k))
               \o Pack32(Xor32(ToW32(size), k))
               \o Pack32(Xor32(Head(entries)[3], k))
               \o Pack32(Xor32(ToW32(Len(name)), k))
               \o [i \in 1 .. Len(name) |-> Xor8(name[i], ByteOf(k, (i - 1) % 4))]
               \o PackV3Table(Tail(entries), k, offset + size)

RECURSIVE TableLen(_)
TableLen(entries) ==
    IF entries = <<>> THEN 0 ELSE 16 + Len(Head(entries)[1]) + TableLen(Tail(entries))

RECURSIVE Payloads(_)
Payloads(entries) ==
    IF entries = <<>> THEN <<>> ELSE Payload(Head(entries)[2]) \o Payloads(Tail(entries))

\* the seed field, the table, an all-zero record and the payloads
PackV3(entries, seed, k) ==
    Pack32(seed) \o PackV3Table(entries, k, 12 + TableLen(entries) + 16)
      \o Pack32(k) \o Pack32(k) \o Pack32(k) \o Pack32(k)
      \o Payloads(entries)

MetadataSeed == W32(258, 772)

\* headers, each with the layout of the file that follows it: the four of
\* the format, and others a byte away from them
Headers ==
    {[bytes |-> Magic \o <<0, 1>>, body |-> "v1"],
     [bytes |-> Magic \o <<0, 2>>, body |-> "v1"],
     [bytes |-> Magic \o <<0, 3>>, body |-> "v3"],
     [bytes |-> Fux2Pack, body |-> "fux"],
     [bytes |-> Magic \o <<0, 0>>, body |-> "v1"],
     [bytes |-> Magic \o <<0, 4>>, body |-> "v3"],
     [bytes |-> <<82, 71, 83, 83, 65, 69, 0, 1>>, body |-> "v1"],
     [bytes |-> Magic \o <<1, 1>>, body |-> "v1"],
     [bytes |-> Magic \o <<9, 3>>, body |-> "v3"],
     [bytes |-> <<70, 117, 120, 50, 80, 97, 99, 108>>, body |-> "fux"]}

PackFile(h, entries) ==
    h.bytes \o
      (IF h.body = "v1" THEN PackV1(entries, DEFAULT_IV)
       ELSE IF h.body = "v3"
            THEN PackV3(entries, MetadataSeed,
                        Add32(Mul32(MetadataSeed, ToW32(9)), ToW32(3)))
       ELSE PackV3(entries, MetadataSeed, MetadataSeed))

\* the file without its last c bytes
Cut(f, c) == SubSeq(f, 1, Len(f) - c)

\* the bytes cut off the end of a file: the last few, or the 16 of the
\* record that ends a v3 table
Cuts == (0 .. MaxCut) \cup {16}

ArchiveFiles ==
    {Cut(PackFile(h, es), c) :
        h \in Headers, es \in SeqsUpTo(PackEntries, MaxEntries), c \in Cuts}

ParseInit ==
    /\ DefaultTable /\ NoFuse
    /\ arc \in ArchiveFiles
    /\ NoArchive
    /\ key = None /\ iv = None
    /\ pos = 0 /\ vfile_base = 0 /\ vfile_length = 0
    /\ call = Call("init", 0, 0)
    /\ ret = Returned(<<>>)
    /\ steps = 0

\* Archive(arc_filename): md keeps the records the parser yielded, key and
\* pos the parser's key and raw position when it ended
Archive ==
    /\ built = "none"
    /\ \E parsed \in {_parse_metadata(arc)} : \E a \in {Archive_init(parsed)} :
           /\ md' = parsed.records
           /\ key' = parsed.key
           /\ pos' = parsed.pos
           /\ built' = a[1]
           /\ inodes' = a[2]
           /\ ret' = IF a[1] = "ok" THEN Returned(<<>>) ELSE Raised(a[1])
    /\ call' = Call("Archive", 0, 0)
    /\ UNCHANGED <<lcg_table, fuseVars, iv, vfile_base, vfile_length, arc, steps>>

ParseNext == Archive

SpecParse == ParseInit /\ [][ParseNext]_vars

\* Archive(arc_filename) turn by turn: _build_directory_tree pulls one record
\* at a time out of the parser and adds it to the table.  built names the
\* parser while its loop runs ("_parser_v1", "_parser_v3"), then "ok" or the
\* exception the constructor ended with.
Running == {"none", "_parser_v1", "_parser_v3"}

\* what no step of the constructor touches
notParsed ==
    <<iv, vfile_base, vfile_length, arc, call, ret, steps, lcg_table, fuseVars>>

\* Archive.__init__ up to the parser's loop: the table with its root, the
\* magic check, the key seed _parser_v3 reads
parse_begin ==
    /\ built = "none"
    /\ inodes' = InitialInodes
    /\ md' = <<>>
    /\ \E chosen \in {magic_check(arc)} :
          IF chosen = "_parser_v1"
              THEN built' = chosen /\ key' = DEFAULT_IV /\ pos' = 8
          ELSE IF chosen \in {"_parser_v3", "Fux2Pack"}
              THEN IF readinto(arc, 8, 4) < 4
                   THEN built' = "struct.error" /\ key' = None
                          /\ pos' = 8 + readinto(arc, 8, 4)
                   ELSE built' = "_parser_v3" /\ pos' = 12
                          /\ key' = metadata_key(WordAt(arc, 8, 1), chosen = "Fux2Pack")
          ELSE built' = chosen /\ key' = None /\ pos' = readinto(arc, 0, 8)
    /\ UNCHANGED notParsed

\* the record a turn yielded goes into the table; the parser is resumed
\* (and skips the payload) only if that did not raise
Yielded(turn, added) ==
    /\ md' = Append(md, turn.rec)
    /\ key' = turn.key
    /\ inodes' = added[2]
    /\ IF added[1] = "ok"
       THEN built' = built /\ pos' = turn.pos + turn.skipped
       ELSE built' = added[1] /\ pos' = turn.pos

\* a turn that ended the loop or raised
Ended(turn) ==
    /\ built' = (IF turn.exc = "break" THEN "ok" ELSE turn.exc)
    /\ key' = turn.key
    /\ pos' = turn.pos
    /\ UNCHANGED <<md, inodes>>

\* one turn of "while arc.tell() < arc_size" in _parser_v1
parser_v1_turn ==
    /\ built = "_parser_v1"
    /\ IF ~(pos < Len(arc))
       THEN built' = "ok" /\ UNCHANGED <<key, pos, md, inodes>>
       ELSE \E turn \in {V1Turn(arc, pos, key)} :
                IF turn.exc = "yield"
                THEN \E added \in {AddRecord(inodes, turn.rec)} : Yielded(turn, added)
                ELSE Ended(turn)
    /\ UNCHANGED notParsed

\* one turn of "while True" in _parser_v3
parser_v3_turn ==
    /\ built = "_parser_v3"
    /\ \E turn \in {V3Turn(arc, pos, key)} :
           IF turn.exc = "yield"
           THEN \E added \in {AddRecord(inodes, turn.rec)} : Yielded(turn, added)
           ELSE Ended(turn)
    /\ UNCHANGED notParsed

ConstructNext == parse_begin \/ parser_v1_turn \/ parser_v3_turn

\* a turn can be taken exactly while the constructor runs: each of the
\* three actions is total under its guard and changes built or pos
ConstructEnabled == built \in Running

\* the constructor runs in its caller's thread, statement after statement:
\* a turn that can be taken is taken.  This is weak fairness of
\* ConstructNext, WF_vars(ConstructNext), with ENABLED <<ConstructNext>>_vars
\* written out as ConstructEnabled.
ConstructFair == []<>(~ConstructEnabled) \/ []<><<ConstructNext>>_vars

SpecConstruct == ParseInit /\ [][ConstructNext]_vars /\ ConstructFair

\* ------------------------------------------------------------------------
\* An Archive and the streams opened from it by path
\* ------------------------------------------------------------------------
MaxRecords == 2

\* entry records <<path, offset, size, seed>> a parser may yield
Records ==
    {<<<<"a">>, 2, EntryLen, DEFAULT_IV>>,
     <<<<"d", "\\", "b">>, ArcSize - EntryLen, EntryLen, W32(4660, 22136)>>,
     <<<<"d", "\\", "c", "\\", "e">>, 3, 2, W32(0, 0)>>,
     <<<<"d">>, 5, 4, W32(65535, 65535)>>,
     <<<<".", ".">>, 6, 3, W32(0, 1)>>,
     <<<<".", "\\", "d", "\\", "\\", "b">>, 1, 1, W32(1, 0)>>}

\* the paths handed to Archive.open
OpenPaths ==
    {<<"a">>, <<"d", "/", "b">>, <<"d">>, <<"z">>, <<"d", "/", "z">>, <<>>,
     <<"/", "a">>, <<"d", "/", ".", ".", "/", "a">>, <<"a", "/", "b">>,
     <<"d", "/", "c", "/", "e">>, <<"a", "/", "x">>, <<"d", "/", "c">>,
     <<".", "/", "d", "/", "/", "b">>, <<".", ".">>}

ArchiveInit ==
    /\ DefaultTable /\ NoFuse
    /\ arc = ArcBytes
    /\ md \in SeqsUpTo(Records, MaxRecords)
    /\ LET b == _build_directory_tree(md)
       IN  built = b[1] /\ inodes = b[2]
    /\ key = W32(0, 0) /\ iv = W32(0, 0)       \* no stream opened yet
    /\ pos = 0 /\ vfile_base = 0 /\ vfile_length = 0
    /\ call = Call("init", 0, 0)
    /\ ret = Returned(<<>>)
    /\ steps = 0

\* Archive.open(path), iopen(inode) and File.__init__ for the stream returned
open ==
    \E path \in OpenPaths :
        /\ built = "ok"
        /\ LET r == Archive_open(inodes, path)
           IN  IF r.exc = "none"
               THEN LET entry == inodes[r.id + 1]
                    IN  /\ vfile_base' = entry.offset
                        /\ vfile_length' = entry.size
                        /\ iv' = entry.magickey
                        /\ key' = entry.magickey
                        /\ pos' = entry.offset
                        /\ ret' = Returned(<<r.id>>)
               ELSE /\ UNCHANGED <<vfile_base, vfile_length, iv, key, pos>>
                    /\ ret' = Raised(r.exc)
        /\ call' = Call("open", path, 0)
        /\ UNCHANGED <<lcg_table, fuseVars, arc, steps, archiveVars>>

MaxOffset == 3

\* Archive.readdir(inode) and Archive.readdir(inode, offset), on every index
\* of the table and one past it; the call recorded keeps the offset in its
\* third field
list_directory ==
    \E inode \in 0 .. Len(inodes) : \E with_offset \in BOOLEAN :
      \E offset \in (IF with_offset THEN (0 - 1) .. MaxOffset ELSE {0}) :
        /\ built = "ok"
        /\ steps = 0
        /\ ret' = readdir(inodes, inode, with_offset, offset)
        /\ call' = Call(IF with_offset THEN "readdir_offset" ELSE "readdir", inode, offset)
        /\ steps' = 1
        /\ UNCHANGED <<lcg_table, fuseVars, key, iv, fileVars, archiveVars>>

\* Archive.lookup_r(path) from the root: val is <<inode>>, <<>> for None
lookup_path ==
    \E path \in OpenPaths :
        /\ built = "ok"
        /\ steps = 0
        /\ \E r \in {lookup_r(inodes, path)} :
               ret' = IF r.exc # "none" THEN Raised(r.exc)
                      ELSE IF r.id = 0 - 1 THEN Returned(<<>>)
                      ELSE Returned(<<r.id>>)
        /\ call' = Call("lookup_r", path, 0)
        /\ steps' = 1
        /\ UNCHANGED <<lcg_table, fuseVars, key, iv, fileVars, archiveVars>>

ArchiveNext == open \/ list_directory \/ lookup_path

SpecArchive == ArchiveInit /\ [][ArchiveNext]_vars

\* ------------------------------------------------------------------------
\* fuse_server.py: FileHandleTable, called by the worker threads of the
\* FUSE main loop.  A thread takes one step per statement; a call begins at
\* the statement after self._lock.acquire(), which a thread passes only
\* while no other thread holds the lock (get takes no lock).
\* ------------------------------------------------------------------------
NumThreads == 2

MaxHandles == 2

Threads == 1 .. NumThreads

\* the ids handed to free, get and set: every id alloc can return, the
\* first it cannot, and a negative one
FhArgs == (0 - 1) .. MaxHandles

HandleData == {"x", "y"}

\* a thread's frame: the method it is in, the statement it is at ("done"
\* once the method returned or raised), its fh and data, the exception
Frame(op, at, fh, data, exc) == [op |-> op, at |-> at, fh |-> fh, data |-> data, exc |-> exc]

Idle == Frame("none", "done", 0 - 1, "None", "none")

\* a dict with key k set to v, and with key k deleted
DictSet(dict, k, v) == [x \in DOMAIN dict \cup {k} |-> IF x = k THEN v ELSE dict[x]]

DictDel(dict, k) == [x \in DOMAIN dict \ {k} |-> dict[x]]

HandlesInit ==
    /\ NoHandles
    /\ threads = [t \in Threads |-> Idle]
    /\ listing = <<>>
    /\ DefaultTable
    /\ key = None /\ iv = None
    /\ pos = 0 /\ vfile_base = 0 /\ vfile_length = 0 /\ arc = <<>>
    /\ NoArchive
    /\ call = Call("init", 0, 0)
    /\ ret = Returned(<<>>)
    /\ steps = 0

\* what no step of the handle table touches
notHandles ==
    <<key, iv, pos, vfile_base, vfile_length, arc, call, ret, steps, archiveVars,
      lcg_table, listing>>

\* thread t moves to frame f inside its method
Goto(t, f) == threads' = [threads EXCEPT ![t] = f]

\* thread t leaves its method, by return or by exception
Leave(t) == threads' = [threads EXCEPT ![t] = Idle]

At(t, op, at) == threads[t].op = op /\ threads[t].at = at

\* (mutant) tests the id against the counter only
_check_fh_counter_only(fh) == fh >= _last_avaliable_id

\* FileHandleTable._check_fh(fh) raises IndexError
_check_fh(fh) == fh >= _last_avaliable_id \/ fh \notin DOMAIN _fh

\* alloc(data): the lock is taken
alloc ==
    \E t \in Threads : \E data \in HandleData :
        /\ threads[t].at = "done"
        /\ _lock = {}
        /\ Len(_recycled_ids) > 0 \/ _last_avaliable_id < MaxHandles
        /\ _lock' = {t}
        /\ Goto(t, Frame("alloc", "take", 0 - 1, data, "none"))
        /\ UNCHANGED <<_fh, _recycled_ids, _last_avaliable_id, notHandles>>

\* alloc: fh is the counter, which is stepped, or the head of the queue
alloc_take ==
    \E t \in Threads :
        /\ At(t, "alloc", "take")
        /\ IF Len(_recycled_ids) = 0
           THEN /\ Goto(t, [threads[t] EXCEPT !.at = "store", !.fh = _last_avaliable_id])
                /\ _last_avaliable_id' = _last_avaliable_id + 1
                /\ UNCHANGED _recycled_ids
           ELSE /\ Goto(t, [threads[t] EXCEPT !.at = "store", !.fh = Head(_recycled_ids)])
                /\ _recycled_ids' = Tail(_recycled_ids)
                /\ UNCHANGED _last_avaliable_id
        /\ UNCHANGED <<_fh, _lock, notHandles>>

\* alloc: self._fh[fh] = data
alloc_store ==
    \E t \in Threads :
        /\ At(t, "alloc", "store")
        /\ _fh' = DictSet(_fh, threads[t].fh, threads[t].data)
        /\ Goto(t, [threads[t] EXCEPT !.at = "release"])
        /\ UNCHANGED <<_recycled_ids, _last_avaliable_id, _lock, notHandles>>

\* free(fh): the lock is taken
free ==
    \E t \in Threads : \E fh \in FhArgs :
        /\ threads[t].at = "done"
        /\ _lock = {}
        /\ _lock' = {t}
        /\ Goto(t, Frame("free", "check", fh, "None", "none"))
        /\ UNCHANGED <<_fh, _recycled_ids, _last_avaliable_id, notHandles>>

\* free: del self._fh[fh]
free_del ==
    \E t \in Threads :
        /\ At(t, "free", "del")
        /\ _fh' = DictDel(_fh, threads[t].fh)
        /\ Goto(t, [threads[t] EXCEPT !.at = "append"])
        /\ UNCHANGED <<_recycled_ids, _last_avaliable_id, _lock, notHandles>>

\* free: self._recycled_ids.append(fh)
free_append ==
    \E t \in Threads :
        /\ At(t, "free", "append")
        /\ _recycled_ids' = Append(_recycled_ids, threads[t].fh)
        /\ Goto(t, [threads[t] EXCEPT !.at = "release"])
        /\ UNCHANGED <<_fh, _last_avaliable_id, _lock, notHandles>>

\* set(fh, data): the lock is taken
set ==
    \E t \in Threads : \E fh \in FhArgs : \E data \in HandleData :
        /\ threads[t].at = "done"
        /\ _lock = {}
        /\ _lock' = {t}
        /\ Goto(t, Frame("set", "check", fh, data, "none"))
        /\ UNCHANGED <<_fh, _recycled_ids, _last_avaliable_id, notHandles>>

\* set: self._fh[fh] = data
set_store ==
    \E t \in Threads :
        /\ At(t, "set", "store")
        /\ _fh' = DictSet(_fh, threads[t].fh, threads[t].data)
        /\ Goto(t, [threads[t] EXCEPT !.at = "release"])
        /\ UNCHANGED <<_recycled_ids, _last_avaliable_id, _lock, notHandles>>

\* get(fh): no lock
get ==
    \E t \in Threads : \E fh \in FhArgs :
        /\ threads[t].at = "done"
        /\ Goto(t, Frame("get", "check", fh, "None", "none"))
        /\ UNCHANGED <<tableVars, notHandles>>

\* get: return self._fh[fh], or the KeyError of an id freed since the check
get_read ==
    \E t \in Threads :
        /\ At(t, "get", "read")
        /\ Leave(t)
        /\ UNCHANGED <<tableVars, notHandles>>

\* self._check_fh(fh) of free, set and get: an IndexError takes free and
\* set to their finally clause and get out of the method
check_fh ==
    \E t \in Threads :
        /\ threads[t].at = "check"
        /\ IF _check_fh(threads[t].fh)
           THEN IF threads[t].op = "get" THEN Leave(t)
                ELSE Goto(t, [threads[t] EXCEPT !.exc = "IndexError", !.at = "release"])
           ELSE Goto(t, [threads[t] EXCEPT !.at = IF threads[t].op = "free" THEN "del"
                                                  ELSE IF threads[t].op = "set" THEN "store"
                                                  ELSE "read"])
        /\ UNCHANGED <<tableVars, notHandles>>

\* finally: self._lock.release(), then the return or the exception
release ==
    \E t \in Threads :
        /\ threads[t].at = "release"
        /\ _lock' = {}            \* Lock.release() frees the lock whoever holds it
        /\ Leave(t)
        /\ UNCHANGED <<_fh, _recycled_ids, _last_avaliable_id, notHandles>>

HandlesNext ==
    \/ alloc \/ alloc_take \/ alloc_store
    \/ free \/ free_del \/ free_append
    \/ set \/ set_store
    \/ get \/ get_read
    \/ check_fh \/ release

SpecHandles == HandlesInit /\ [][HandlesNext]_vars

\* ------------------------------------------------------------------------
\* fuse_server.py: RgssadFuse, the handlers the FUSE main loop calls, each
\* run from its first statement to its return (one worker).  The kernel
\* names the mount root by llfuse.ROOT_INODE and any other entry by the
\* st_ino a handler returned for it.
\* ------------------------------------------------------------------------
\* llfuse.ROOT_INODE (FUSE_ROOT_ID)
llfuse_ROOT_INODE == 1

_if2a(inode) == inode - llfuse_ROOT_INODE

_ia2f(inode) == llfuse_ROOT_INODE + inode

\* Archive.exists(inode), for inode >= 0: an index past the list is caught
exists(tbl, inode) == inode < Len(tbl) /\ tbl[inode + 1] # NoInode

\* the EntryAttributes getattr fills in for the table entry arc_entry
EntryAttributes(inode, arc_entry) ==
    [st_ino  |-> inode,
     type    |-> arc_entry.type,
     st_size |-> IF arc_entry.type = "f" THEN arc_entry.size ELSE 0]

\* RgssadFuse.getattr(inode), for _if2a(inode) >= 0: read_inode's IndexError
\* becomes ENOENT; a None slot has no ['type']
getattr(tbl, inode) ==
    IF ~(_if2a(inode) < Len(tbl)) THEN Raised("ENOENT")
    ELSE IF tbl[_if2a(inode) + 1] = NoInode THEN Raised("TypeError")
    ELSE Returned(<<EntryAttributes(inode, tbl[_if2a(inode) + 1])>>)

\* RgssadFuse.lookup(parent_inode, name): Archive.lookup goes through
\* Archive.readdir(parent), whose exceptions nothing catches
FuseLookup(tbl, listed, name) ==
    IF listed.exc # "none" THEN Raised(listed.exc)
    ELSE IF FirstNamed(listed.val, name).id = 0 - 1 THEN Raised("ENOENT")
    ELSE getattr(tbl, _ia2f(FirstNamed(listed.val, name).id))

RgssadFuse_lookup(tbl, parent_inode, name) ==
    FuseLookup(tbl, readdir(tbl, _if2a(parent_inode), FALSE, 0), name)

\* (mutant) counts the entries of this call only
next_offset_of_call(ctr, off) == ctr + 1

\* the third member of what readdir yields: ctr + off + 1
next_offset(ctr, off) == ctr + off + 1

\* the generator RgssadFuse.readdir(fh, off) returns, run to its end over
\* the entries Archive.readdir(ref, off or None) yields: the tuples
\* yielded, up to the first entry whose getattr raises
RECURSIVE ReaddirLoop(_, _, _, _)
ReaddirLoop(tbl, entries, ctr, off) ==
    IF ctr >= Len(entries) THEN [exc |-> "none", val |-> <<>>]
    ELSE IF getattr(tbl, _ia2f(entries[ctr + 1].id)).exc # "none"
    THEN [exc |-> getattr(tbl, _ia2f(entries[ctr + 1].id)).exc, val |-> <<>>]
    ELSE [exc |-> ReaddirLoop(tbl, entries, ctr + 1, off).exc,
          val |-> <<[name |-> entries[ctr + 1].name,
                     st_ino |-> getattr(tbl, _ia2f(entries[ctr + 1].id)).val[1].st_ino,
                     next |-> next_offset(ctr, off)]>>
                  \o ReaddirLoop(tbl, entries, ctr + 1, off).val]

RgssadFuse_readdir(tbl, fhobj, off) ==
    IF readdir(tbl, fhobj.ref, off # 0, off).exc # "none"
    THEN [exc |-> readdir(tbl, fhobj.ref, off # 0, off).exc, val |-> <<>>]
    ELSE ReaddirLoop(tbl, readdir(tbl, fhobj.ref, off # 0, off).val, 0, off)

\* the FUSE inodes the kernel may hold: the mount root, and st_ino values
FuseInodes == 1 .. 5

\* the names the kernel looks up
LookupNames == {<<"a">>, <<"d">>, ParDir, <<"z">>}

\* the most entries one readdir reply has room for
MaxChunk == 3

\* the most directories the kernel holds open at once
MaxOpen == 1

\* the handlers leave these alone
notFuse ==
    <<key, iv, pos, vfile_base, vfile_length, arc, steps, archiveVars, lcg_table,
      _lock, threads>>

\* RgssadFuse(arc_filename): a server exists once core.Archive(arc_filename)
\* has returned; its handle table is empty.  listing is the kernel's side
\* of each open directory: the offset it resumes at, the entries it has
\* been given, the replies that carried any, whether a reply came empty.
FuseInit == ArchiveInit /\ built = "ok"

Stream(off, got, replies, eof) == [off |-> off, got |-> got, replies |-> replies, eof |-> eof]

fuse_getattr ==
    \E inode \in FuseInodes :
        /\ call' = Call("getattr", inode, 0)
        /\ ret' = getattr(inodes, inode)
        /\ UNCHANGED <<notFuse, tableVars, listing>>

fuse_lookup ==
    \E parent_inode \in FuseInodes, name \in LookupNames :
        /\ call' = Call("lookup", <<parent_inode, name>>, 0)
        /\ ret' = RgssadFuse_lookup(inodes, parent_inode, name)
        /\ UNCHANGED <<notFuse, tableVars, listing>>

\* RgssadFuse.opendir(inode, ctx), FileHandleTable.alloc included
fuse_opendir ==
    \E inode \in FuseInodes :
        /\ Cardinality(DOMAIN _fh) < MaxOpen
        /\ call' = Call("opendir", inode, 0)
        /\ IF ~exists(inodes, _if2a(inode)) \/ ~isdir(inodes, _if2a(inode))
           THEN ret' = Raised("ENOENT") /\ UNCHANGED <<tableVars, listing>>
           ELSE \E fh \in {IF Len(_recycled_ids) = 0 THEN _last_avaliable_id
                           ELSE Head(_recycled_ids)} :
                    /\ IF Len(_recycled_ids) = 0
                       THEN _last_avaliable_id' = _last_avaliable_id + 1
                              /\ UNCHANGED _recycled_ids
                       ELSE _recycled_ids' = Tail(_recycled_ids)
                              /\ UNCHANGED _last_avaliable_id
                    /\ _fh' = DictSet(_fh, fh, [type |-> "d", ref |-> _if2a(inode)])
                    /\ listing' = DictSet(listing, fh, Stream(0, <<>>, 0, FALSE))
                    /\ ret' = Returned(<<fh>>)
        /\ UNCHANGED <<notFuse, _lock>>

\* the kernel takes the first n tuples of the generator as one reply and
\* resumes after the last of them
Reply(fh, gen, n) ==
    \E given \in {SubSeq(gen.val, 1, Min(n, Len(gen.val)))} :
        /\ ret' = (IF Len(given) = 0 /\ gen.exc # "none"
                   THEN Raised(gen.exc) ELSE Returned(given))
        /\ listing' = [listing EXCEPT ![fh] =
               IF given = <<>>
               THEN Stream(@.off, @.got, @.replies, gen.exc = "none")
               ELSE Stream(given[Len(given)].next, @.got \o given, @.replies + 1, FALSE)]

\* RgssadFuse.readdir(fh, off) with off the offset the kernel resumes at
fuse_readdir ==
    \E fh \in FhArgs, n \in 1 .. MaxChunk :
        /\ call' = Call("readdir", fh, n)
        /\ IF _check_fh(fh)
           THEN ret' = Raised("IndexError") /\ UNCHANGED listing
           ELSE \E gen \in {RgssadFuse_readdir(inodes, _fh[fh], listing[fh].off)} :
                    Reply(fh, gen, n)
        /\ UNCHANGED <<notFuse, tableVars>>

\* RgssadFuse.releasedir(fh), FileHandleTable.get and free included
fuse_releasedir ==
    \E fh \in FhArgs :
        /\ call' = Call("releasedir", fh, 0)
        /\ IF _check_fh(fh)
           THEN ret' = Raised("IndexError") /\ UNCHANGED <<tableVars, listing>>
           ELSE /\ _fh' = DictDel(_fh, fh)
                /\ _recycled_ids' = Append(_recycled_ids, fh)
                /\ listing' = DictDel(listing, fh)
                /\ ret' = Returned(<<>>)
                /\ UNCHANGED <<_last_avaliable_id, _lock>>
        /\ UNCHANGED notFuse

FuseNext == fuse_getattr \/ fuse_lookup \/ fuse_opendir \/ fuse_readdir \/ fuse_releasedir

SpecFuse == FuseInit /\ [][FuseNext]_vars

\* ------------------------------------------------------------------------
\* Keystream properties
\* ------------------------------------------------------------------------
\* n applications of the single step k -> k * 7 + 3 that get_next makes
RECURSIVE GetNextN(_, _)
GetNextN(k, n) ==
    IF n = 0 THEN k
    ELSE IF n = 1 THEN _transform(k)
    ELSE LET h == GetNextN(k, n \div 2)
         IN  IF h[1] < Half THEN GetNextN(h, n - (n \div 2)) ELSE h

\* C7: skip(n) leaves the key that n calls of get_next leave.  Counts up to
\* 2^MaxBit are compared with n single steps; a larger power of two up to
\* 2^ClaimBits is compared with two skips of half the count, which is how
\* the table row of bit b+1 has to relate to the row of bit b.
C7_SkipIsRepeatedGetNext ==
    [][(call'.op = "skip" /\ call'.arg <= 2 ^ ClaimBits) =>
          /\ ret'.exc = "none"
          /\ call'.arg <= 2 ^ MaxBit => key' = GetNextN(key, call'.arg)
          /\ call'.arg > 2 ^ MaxBit =>
                key' = _transformn(_transformn(key, call'.arg \div 2)[2], call'.arg \div 2)[2]
      ]_vars

C7_Witness ==
    /\ call.op = "skip"
    /\ call.arg = 2 ^ MaxBit - 1
    /\ ret.exc = "none"
    /\ key # iv

\* C8: rewind(n) undoes skip(n) for every count the table covers: a skip
\* from key k leaves a key that rewind(n) takes back to k, a rewind leaves a
\* key that skip(n) takes back, and the same for the single steps of
\* get_next and one_step_rollback.
C8_RewindInvertsSkip ==
    [][/\ (call'.op = "skip" /\ call'.arg < 2 ^ TableBits) =>
              _transformn_backwards(key', call'.arg) = <<"ok", key>>
       /\ (call'.op = "rewind" /\ call'.arg < 2 ^ TableBits) =>
              /\ ret'.exc = "none"
              /\ _transformn(key', call'.arg) = <<"ok", key>>
              /\ (call.op = "skip" /\ call.arg = call'.arg /\ steps = 1) => key' = iv
       /\ call'.op = "get_next" => _transform_backwards(key') = key
       /\ call'.op = "one_step_rollback" => _transform(key') = key
      ]_vars

C8_Witness ==
    /\ call.op = "rewind"
    /\ call.arg = 2 ^ TableBits - 1
    /\ steps = 2
    /\ key = iv

\* C9 (as the code has it): from seed 0xDEADCAFE the first get_next returns
\* 0xDEADCAFE and leaves 0x16C08CF5, which the second get_next returns;
\* every get_next returns the current key and leaves key * 7 + 3 mod 2^32.
C9_SecondKey == W32(5824, 36085)       \* 0x16c08cf5

C9_KeySequence ==
    [][call'.op = "get_next" =>
          /\ ret' = Returned(key)
          /\ key' = Add32(Mul32(key, ToW32(7)), ToW32(3))
          /\ key = DEFAULT_IV => key' = C9_SecondKey
      ]_vars

C9_Witness ==
    /\ iv = DEFAULT_IV
    /\ steps = 2
    /\ call.op = "get_next"
    /\ ret = Returned(C9_SecondKey)

\* C9 as claimed: the second get_next of a keystream seeded 0xDEADCAFE
\* returns 0x14C0DDF5.
C9_Claimed ==
    (iv = DEFAULT_IV /\ steps = 2 /\ call.op = "get_next"
        /\ key = _transform(_transform(iv)))
        => ret = Returned(W32(5312, 56821))

\* C10 as claimed: skip and rewind never fail for a non-negative count.
C10_NeverFails ==
    (call.op \in {"skip", "rewind"} /\ call.arg >= 0) => ret.exc = "none"

\* ------------------------------------------------------------------------
\* Stream properties
\* ------------------------------------------------------------------------
\* Python's seq[a:b] for 0 <= a
Slice(seq, a, b) == SubSeq(seq, a + 1, Min(b, Len(seq)))

\* R: the payload as one read of the whole entry on a freshly opened stream
\* returns it
FreshPayload ==
    _read_data_32bit(arc, vfile_base, iv, vfile_base,
                     read_count(0 - 1, 0, vfile_length)).data

EntryInsideArchive == vfile_base + vfile_length <= Len(arc)

\* C1: on an entry inside the archive file, reached by absolute seeks and
\* reads in any order, read(n) at virtual position p returns
\* R[p : min(p + n, size)] (R[p:] for a negative n).
C1_RandomAccessRead ==
    [][call'.op = "read" =>
          /\ ret'.exc = "none"
          /\ ret'.val = Slice(FreshPayload, tell,
                              IF call'.arg < 0 THEN vfile_length
                              ELSE Min(tell + call'.arg, vfile_length))
      ]_vars

\* a read of three bytes that ended inside the last block of an entry which
\* other bytes follow, on a stream that had been moved before
C1_Witness ==
    /\ call.op = "read"
    /\ call.arg = 3
    /\ Len(ret.val) = 3
    /\ tell = 8
    /\ vfile_base + vfile_length < Len(arc)
    /\ ret.val = Slice(FreshPayload, 5, 8)

\* C2 as claimed: whatever reads and seeks were made, the key is the seed
\* advanced by floor(tell() / 4) steps.
C2_KeyFollowsTell ==
    (EntryInsideArchive /\ tell >= 0 /\ tell <= 4 * (2 ^ MaxBit) + 3)
        => key = GetNextN(iv, tell \div 4)

\* C3 as claimed: seek(d, SEEK_END) with size + d >= 0 returns size + d and
\* leaves the keystream at block floor((size + d) / 4), for any entry.
C3_SeekEnd ==
    (/\ EntryInsideArchive
     /\ call.op = "seek" /\ call.whence = SEEK_END
     /\ vfile_length + call.arg >= 0)
        => /\ ret = Returned(<<vfile_length + call.arg>>)
           /\ tell = vfile_length + call.arg
           /\ key = GetNextN(iv, (vfile_length + call.arg) \div 4)

\* C4: a seek whose target virtual position is negative raises EINVAL and
\* leaves the raw cursor (hence tell()) and the key as they were.
C4_NegativeSeekRejected ==
    [][(/\ call'.op = "seek"
        /\ (IF call'.whence = SEEK_SET THEN call'.arg
            ELSE IF call'.whence = SEEK_CUR THEN tell + call'.arg
            ELSE vfile_length + call'.arg) < 0)
          => /\ ret' = Raised("EINVAL")
             /\ pos' = pos
             /\ key' = key
      ]_vars

\* a relative seek to before the start, rejected on a stream that a read
\* had moved
C4_Witness ==
    /\ call.op = "seek"
    /\ call.whence = SEEK_CUR
    /\ ret = Raised("EINVAL")
    /\ steps = 2
    /\ tell > 0
    /\ tell + call.arg < 0
    /\ key # iv

\* C5: read(size) returns max(0, size of entry - tell()) bytes when size is
\* negative or larger than that, size bytes otherwise, nothing at or past
\* the entry's end, and never moves the cursor past the entry's end.
C5_ReadStaysInsideEntry ==
    [][call'.op = "read" =>
          LET remaining == Max(0, vfile_length - tell)
          IN  /\ ret'.exc = "none"
              /\ Len(ret'.val) = IF call'.arg < 0 \/ call'.arg > remaining
                                 THEN remaining ELSE call'.arg
              /\ tell >= vfile_length => ret'.val = <<>>
              /\ pos' >= pos
              /\ pos' - pos <= Len(ret'.val)
              /\ pos' - vfile_base <= Max(tell, vfile_length)
      ]_vars

\* a read that asked for more than was left of an entry which other bytes
\* follow in the file, and got only what was left
C5_Witness ==
    /\ call.op = "read"
    /\ Len(ret.val) > 0
    /\ call.arg > Len(ret.val)
    /\ tell = vfile_length
    /\ vfile_base + vfile_length < Len(arc)

\* the stream is synchronised: the key is the seed advanced to the block of
\* the virtual position
Synchronised == tell >= 0 /\ key = GetNextN(iv, tell \div 4)

\* C21: seek(d, SEEK_CUR) on a synchronised stream at virtual position p
\* with p + d >= 0 returns p + d, moves the cursor there and leaves the key
\* at block floor((p + d) / 4); for d >= 0 that is the key advanced by
\* floor((p mod 4 + d) / 4) blocks.
C21_SeekCur ==
    [][(/\ call'.op = "seek" /\ call'.whence = SEEK_CUR
        /\ Synchronised
        /\ tell + call'.arg >= 0)
          => /\ ret' = Returned(<<tell + call'.arg>>)
             /\ pos' = pos + call'.arg
             /\ key' = GetNextN(iv, (tell + call'.arg) \div 4)
             /\ call'.arg >= 0 =>
                    key' = GetNextN(key, ((tell % 4) + call'.arg) \div 4)
      ]_vars

\* a backward relative seek from block 5 to an unaligned position of block
\* 1, far enough for reset and skip, made after a forward one
C21_Witness ==
    /\ call.op = "seek" /\ call.whence = SEEK_CUR
    /\ call.arg = 0 - 17
    /\ ret = Returned(<<6>>)
    /\ key = GetNextN(iv, 1)
    /\ key # iv

C24_Offset == Xor32(WordAt(arc, pos, 1), key)

\* one turn of a parser
C24_Turn ==
    \* v1/v2: every turn that leaves the loop running has moved the raw
    \* cursor forward, no turn moves it back, and the loop ends without an
    \* exception only with the cursor at or past the file size
    /\ built = "_parser_v1" =>
          /\ built' = "_parser_v1" => (pos < Len(arc) /\ pos' > pos)
          /\ built' = "ok" => (pos >= Len(arc) /\ md' = md)
          /\ pos' >= pos
          /\ md' = md \/ (Len(md') = Len(md) + 1 /\ SubSeq(md', 1, Len(md)) = md)
    \* v3/Fux2Pack: a turn ends the loop without an exception exactly when
    \* the record at the cursor is whole and its f_offset is 0, and then
    \* adds no record; a turn on a file that ends inside or before the
    \* record raises; any other turn yields that record, after those
    \* yielded before
    /\ built = "_parser_v3" =>
          IF pos + 16 > Len(arc)
          THEN built' \notin Running \cup {"ok"} /\ md' = md
          ELSE IF C24_Offset = ToW32(0)
          THEN built' = "ok" /\ md' = md
          ELSE /\ built' # "ok"
               /\ Len(md') = Len(md) + 1
               /\ SubSeq(md', 1, Len(md)) = md
               /\ md'[Len(md')][2] = ToInt(C24_Offset)
               /\ pos' >= pos + 16

Locked(t) ==
    \/ threads[t].at \in {"take", "store", "del", "append", "release"}
    \/ threads[t].at = "check" /\ threads[t].op # "get"

\* the recycled queue holds no live id and no id twice, the id alloc has
\* taken is neither live nor queued, and the lock is held by exactly the
\* thread inside alloc, free or set
C23_TableSound ==
    /\ \A i \in 1 .. Len(_recycled_ids) :
          /\ _recycled_ids[i] \notin DOMAIN _fh
          /\ \A j \in 1 .. Len(_recycled_ids) : _recycled_ids[i] = _recycled_ids[j] => i = j
    /\ \A t \in Threads : At(t, "alloc", "store") =>
          threads[t].fh \notin DOMAIN _fh \cup {_recycled_ids[i] : i \in 1 .. Len(_recycled_ids)}
    /\ _lock = {t \in Threads : Locked(t)}

\* the steps of one thread t
C23_Step(t) ==
    \* the id alloc takes is not live, and is live with alloc's data when alloc returns it
    /\ (At(t, "alloc", "take") /\ threads'[t].at = "store") =>
           /\ threads'[t].fh \notin DOMAIN _fh
           /\ threads'[t].fh >= 0
    /\ (At(t, "alloc", "release") /\ threads'[t] = Idle) =>
           /\ threads[t].fh \in DOMAIN _fh
           /\ _fh[threads[t].fh] = threads[t].data
           /\ threads[t].exc = "none"
    \* free and set of an id that is not live (freed before, or never
    \* allocated) raise IndexError and change nothing
    /\ (threads[t].at = "check" /\ threads[t].op \in {"free", "set"}
            /\ threads'[t] # threads[t] /\ threads[t].fh \notin DOMAIN _fh) =>
           /\ threads'[t].exc = "IndexError"
           /\ threads'[t].at = "release"
           /\ UNCHANGED tableVars
    /\ (threads[t].exc = "IndexError" /\ threads'[t] # threads[t]) =>
           /\ threads'[t] = Idle
           /\ UNCHANGED <<_fh, _recycled_ids, _last_avaliable_id>>
    \* alloc, free and set end with the lock released, also when they raise
    /\ (threads[t].op \in {"alloc", "free", "set"} /\ threads'[t] = Idle) =>
           /\ _lock = {t}
           /\ _lock' = {}

\* C23: under any interleaving of alloc, free, get and set by concurrent
\* threads, double frees and frees of ids never allocated included, alloc
\* never takes a live id, no id is in the recycled queue while live or more
\* than once, a free or set of an id that is not live raises IndexError and
\* changes nothing, and every alloc, free and set ends with the lock
\* released, also when it raises.
C23_HandleTable == []C23_TableSound /\ [][\A t \in Threads : C23_Step(t)]_vars

\* a second free of an id, about to raise IndexError with the id in the
\* recycled queue, while another thread's get of that id has passed its
\* check and another id is live
C23_Witness ==
    \E t, u \in Threads :
        /\ At(t, "free", "release")
        /\ threads[t].exc = "IndexError"
        /\ \E i \in 1 .. Len(_recycled_ids) : _recycled_ids[i] = threads[t].fh
        /\ _lock = {t}
        /\ At(u, "get", "read")
        /\ threads[u].fh = threads[t].fh
        /\ DOMAIN _fh # {}

\* ------------------------------------------------------------------------
\* Archive properties
\* ------------------------------------------------------------------------
\* the inode a path names: the walk from the root over the normalised
\* components, each looked for among the children of the directory reached;
\* -1 when a component is not there or what was reached is no directory
RECURSIVE Resolve(_, _, _)
Resolve(tbl, comps, inode) ==
    IF comps = <<>> THEN inode
    ELSE IF tbl[inode + 1].type # "d" THEN 0 - 1
    ELSE LET hits == {i \in 1 .. Len(tbl[inode + 1].children) :
                          tbl[inode + 1].children[i].name = Head(comps)}
         IN  IF hits = {} THEN 0 - 1
             ELSE Resolve(tbl, Tail(comps),
                          tbl[inode + 1].children[CHOOSE i \in hits : \A j \in hits : i <= j].id)

Resolved(path) == Resolve(inodes, Split(posixpath_normpath(path), "/"), ROOT_INODE)

\* C6 as claimed: open(path) raises FileNotFoundError when the path names no
\* inode and IsADirectoryError when it names a directory; otherwise it
\* returns a stream at the entry's offset (tell() = 0) keyed with its seed.
C6_Open ==
    call.op = "open" =>
        LET inode == Resolved(call.arg)
        IN  IF inode = 0 - 1 THEN ret = Raised("FileNotFoundError")
            ELSE IF inodes[inode + 1].type = "d" THEN ret = Raised("IsADirectoryError")
            ELSE /\ ret = Returned(<<inode>>)
                 /\ pos = inodes[inode + 1].offset
                 /\ tell = 0
                 /\ vfile_length = inodes[inode + 1].size
                 /\ key = inodes[inode + 1].magickey

\* ------------------------------------------------------------------------
\* XORer properties
\* ------------------------------------------------------------------------
\* C19 as claimed: a read_32bits(n) that end of file cuts short returns the
\* decrypted words of the whole 4-byte blocks that were read, raises
\* nothing, and advances the keystream by that number of blocks.
C19_ShortReadTruncates ==
    [][call'.op = "read_32bits" /\ readinto(arc, pos, 4 * call'.arg) < 4 * call'.arg =>
          LET blocks == readinto(arc, pos, 4 * call'.arg) \div 4
          IN  /\ ret'.exc = "none"
              /\ ret'.val = [w \in 1 .. blocks |->
                                Xor32(WordAt(arc, pos, w), GetNextN(key, w - 1))]
              /\ key' = GetNextN(key, blocks)]_vars

\* C20: read_32bits_unaligned(len, off) with len raw bytes available returns
\* byte j as raw[j] XOR byte (off + j) mod 4 of the key of block
\* floor((off + j) / 4) counted from the current one, and leaves the
\* keystream floor((off + len) / 4) blocks further.
C20_UnalignedRead ==
    [][call'.op = "read_32bits_unaligned" /\ pos + call'.arg <= Len(arc) =>
          LET len == call'.arg
              off == call'.whence
          IN  /\ ret' = Returned([j \in 1 .. len |->
                            Xor8(arc[pos + j],
                                 ByteOf(GetNextN(key, (off + j - 1) \div 4),
                                        (off + j - 1) % 4))])
              /\ key' = GetNextN(key, (off + len) \div 4)
              /\ pos' = pos + len]_vars

\* a read of 6 bytes at offset 1 in the block (two keys used, one step back)
\* that got all its bytes
C20_Witness ==
    /\ call.op = "read_32bits_unaligned" /\ call.arg = 6 /\ call.whence = 1
    /\ Len(ret.val) = 6
    /\ pos <= Len(arc) /\ pos >= 6
    /\ steps = 1
    /\ key = GetNextN(iv, 1)


\* ------------------------------------------------------------------------
\* Parser properties
\* ------------------------------------------------------------------------
AcceptedHeaders == {Magic \o <<0, 1>>, Magic \o <<0, 2>>, Magic \o <<0, 3>>, Fux2Pack}

\* C11 as claimed: a file whose first 8 bytes are none of the four headers
\* fails with RuntimeError('Unsupported file type') with no entry parsed,
\* and the four headers pass the check.
C11_OnlyFourHeaders ==
    call.op = "Archive" /\ Len(arc) >= 8 =>
        IF SubSeq(arc, 1, 8) \in AcceptedHeaders
        THEN built # "RuntimeError"
        ELSE built = "RuntimeError" /\ md = <<>> /\ pos = 8

\* the file went to _parser_v1
ParsedAsV1 == call.op = "Archive" /\ Len(arc) >= 8 /\ SubSeq(arc, 1, 6) = Magic /\ arc[8] \in {1, 2}

\* the sum of Len(fn) + extra over the first n records of md
RECURSIVE NameBytes(_, _)
NameBytes(n, extra) == IF n = 0 THEN 0 ELSE Len(md[n][1]) + extra + NameBytes(n - 1, extra)

RECURSIVE PayloadBytes(_)
PayloadBytes(n) == IF n = 0 THEN 0 ELSE md[n][3] + PayloadBytes(n - 1)

\* C12: the seed of the k-th record of a v1/v2 archive is 0xDEADCAFE
\* advanced by the sum of fn_len + 2 over the records up to it, and its
\* offset is the raw position after its f_size field: the header, the
\* fn_len and f_size fields and names up to it, and the payloads before it.
C12_V1SeedsAndOffsets ==
    ParsedAsV1 =>
        \A k \in 1 .. Len(md) :
            /\ md[k][4] = GetNextN(DEFAULT_IV, NameBytes(k, 2))
            /\ md[k][2] = 8 + NameBytes(k, 8) + PayloadBytes(k - 1)

\* two records parsed, the first with a payload and a name of three bytes
C12_Witness ==
    /\ ParsedAsV1 /\ built = "ok"
    /\ Len(md) = 2
    /\ md[1][3] > 0 /\ Len(md[1][1]) = 3
    /\ md[2][4] # md[1][4]

\* the file went to _parser_v3 and its seed field is there
ParsedAsV3 ==
    /\ call.op = "Archive" /\ Len(arc) >= 12
    /\ SubSeq(arc, 1, 8) = Fux2Pack \/ (SubSeq(arc, 1, 6) = Magic /\ arc[8] = 3)

\* the key the claim gives for the table of the file
ClaimedMetadataKey ==
    IF SubSeq(arc, 1, 8) = Fux2Pack THEN WordAt(arc, 8, 1)
    ELSE Add32(Mul32(WordAt(arc, 8, 1), ToW32(9)), ToW32(3))

\* C13: in a v3 / Fux2Pack table the key stays the same: it is
\* metadata_seed * 9 + 3 (the seed itself for Fux2Pack) when the parser
\* ends, the four fields of every record are the raw words XORed with it,
\* every filename byte j is the raw byte XORed with its byte j mod 4, and the
\* subkey field is the seed recorded.
C13_V3StaticKey ==
    ParsedAsV3 =>
        /\ key = ClaimedMetadataKey
        /\ \A k \in 1 .. Len(md) :
              LET start == 12 + NameBytes(k - 1, 16)
              IN  /\ md[k][2] = ToInt(Xor32(WordAt(arc, start, 1), ClaimedMetadataKey))
                  /\ md[k][3] = ToInt(Xor32(WordAt(arc, start, 2), ClaimedMetadataKey))
                  /\ md[k][4] = Xor32(WordAt(arc, start, 3), ClaimedMetadataKey)
                  /\ Len(md[k][1]) = ToInt(Xor32(WordAt(arc, start, 4), ClaimedMetadataKey))
                  /\ md[k][1] = decode([j \in 1 .. Len(md[k][1]) |->
                                   Xor8(arc[start + 16 + j],
                                        ByteOf(ClaimedMetadataKey, (j - 1) % 4))])

\* a Fux2Pack table of two records, the second with a name of five bytes
C13_Witness ==
    /\ ParsedAsV3 /\ SubSeq(arc, 1, 8) = Fux2Pack /\ built = "ok"
    /\ Len(md) = 2 /\ Len(md[2][1]) = 5
    /\ key = WordAt(arc, 8, 1)

\* C14 as claimed: no file inode's bytes [offset, offset + size) reach past
\* the end of the archive file (construction fails on such an entry).
C14_NoOverrun ==
    call.op = "Archive" =>
        \A i \in 1 .. Len(inodes) :
            inodes[i].type = "f" => inodes[i].offset + inodes[i].size <= Len(arc)


\* ------------------------------------------------------------------------
\* Inode table properties
\* ------------------------------------------------------------------------
\* the places inode i is entered as a child after the two entries a
\* directory is made with: <<directory, position>>, positions from 0
Links(i) ==
    UNION {{<<j - 1, p - 1>> : p \in {q \in 3 .. Len(inodes[j].children) :
                                         inodes[j].children[q].id = i}} :
           j \in {n \in 1 .. Len(inodes) : inodes[n].type = "d"}}

IsFileInode(n) == n.type = "f"

\* C15: after construction every index below the root holds the unused
\* sentinel, every index from the root on holds an inode, every non-root
\* inode is entered as a child (the '.' and '..' a directory is made with
\* set aside) exactly once, and ids follow creation order: every child is
\* younger than its directory and the file inodes, in id order, are the
\* records in the order the parser yielded them.
C15_InodeTable ==
    built = "ok" =>
        /\ \A i \in 0 .. ROOT_INODE - 1 : inodes[i + 1] = NoInode
        /\ \A i \in ROOT_INODE .. Len(inodes) - 1 : inodes[i + 1].type \in {"d", "f"}
        /\ inodes[ROOT_INODE + 1].type = "d"
        /\ \A i \in ROOT_INODE + 1 .. Len(inodes) - 1 :
              /\ Cardinality(Links(i)) = 1
              /\ \A l \in Links(i) : l[1] < i
        /\ LET files == SelectSeq(inodes, IsFileInode)
           IN  /\ Len(files) = Len(md)
               /\ \A k \in 1 .. Len(md) :
                     <<files[k].offset, files[k].size, files[k].magickey>>
                         = <<md[k][2], md[k][3], md[k][4]>>

\* two records that made two directories below the root
C15_Witness ==
    /\ built = "ok" /\ Len(md) = 2
    /\ Len(inodes) = ROOT_INODE + 5
    /\ Cardinality({n \in 1 .. Len(inodes) : inodes[n].type = "d"}) = 3

\* C16 as claimed: in every directory of a constructed Archive the child
\* names are pairwise distinct.
C16_UniqueNames ==
    built = "ok" =>
        \A j \in 1 .. Len(inodes) :
            inodes[j].type = "d" =>
                \A p, q \in 1 .. Len(inodes[j].children) :
                    p # q => inodes[j].children[p].name # inodes[j].children[q].name

\* the directory a non-root inode was entered in; the root for the root
Parent(i) == IF i = ROOT_INODE THEN ROOT_INODE ELSE (CHOOSE l \in Links(i) : TRUE)[1]

\* C17: readdir(inode, k) of a directory, k >= 0, yields the entries at
\* positions >= k in insertion order, readdir(inode) those from position 0;
\* position 0 is '.' with the directory's own id, position 1 is '..' with the
\* id of its parent (the root's own id for the root).
C17_Readdir ==
    /\ call.op \in {"readdir", "readdir_offset"}
    /\ call.arg < Len(inodes) /\ inodes[call.arg + 1].type = "d"
    /\ call.whence >= 0
    => LET children == inodes[call.arg + 1].children
       IN  /\ ret = Returned([i \in 1 .. Max(Len(children) - call.whence, 0) |->
                                 children[call.whence + i]])
           /\ children[1] = DirEntry(call.arg, CurDir)
           /\ children[2] = DirEntry(Parent(call.arg), ParDir)

\* readdir(inode, 1) of a directory below the root that holds two entries
C17_Witness ==
    /\ call.op = "readdir_offset" /\ call.whence = 1
    /\ call.arg > ROOT_INODE /\ call.arg < Len(inodes)
    /\ inodes[call.arg + 1].type = "d"
    /\ Len(inodes[call.arg + 1].children) = 4
    /\ Len(ret.val) = 3

\* the components of the path of record k, and those joined with '/'
RecordComps(k) == Split(ntpath_normpath(md[k][1]), "\\")

\* a component of the path is looked for in a directory that has no child
\* of that name
RECURSIVE MissingChild(_, _)
MissingChild(comps, inode) ==
    IF comps = <<>> \/ inodes[inode + 1].type # "d" THEN FALSE
    ELSE LET hits == {i \in 1 .. Len(inodes[inode + 1].children) :
                          inodes[inode + 1].children[i].name = Head(comps)}
         IN  IF hits = {} THEN TRUE
             ELSE MissingChild(Tail(comps),
                      inodes[inode + 1].children[CHOOSE i \in hits : \A j \in hits : i <= j].id)

\* C18 as claimed: lookup_r of the path of a record returns a file inode
\* that holds the record's offset, size and seed, lookup_r of a proper
\* prefix of it returns a directory inode, and lookup_r of a path with a
\* component that is no child of the directory reached returns None.
C18_LookupRecords ==
    call.op = "lookup_r" =>
        /\ \A k \in 1 .. Len(md) :
              /\ call.arg = Join(RecordComps(k), "/") =>
                    /\ ret.exc = "none" /\ Len(ret.val) = 1
                    /\ inodes[ret.val[1] + 1] =
                           [type |-> "f", offset |-> md[k][2], size |-> md[k][3],
                            magickey |-> md[k][4]]
              /\ \A j \in 1 .. Len(RecordComps(k)) - 1 :
                    call.arg = Join(SubSeq(RecordComps(k), 1, j), "/") =>
                        /\ ret.exc = "none" /\ Len(ret.val) = 1
                        /\ inodes[ret.val[1] + 1].type = "d"
        /\ MissingChild(Split(posixpath_normpath(call.arg), "/"), ROOT_INODE) =>
              ret = Returned(<<>>)


\* ------------------------------------------------------------------------
\* FUSE adapter properties
\* ------------------------------------------------------------------------
\* the root directory of the Archive the server constructed
ArchiveRoot == inodes[ROOT_INODE + 1]

\* C25: the inode translation takes the FUSE root inode to the archive's
\* root directory inode and every archive inode to a FUSE inode and back,
\* so getattr on the mount root returns the attributes of a directory and
\* opendir on it returns a handle on the archive's root directory.
C25_MountRoot ==
    [][/\ \A a \in 0 .. Len(inodes) : _if2a(_ia2f(a)) = a
       /\ (call'.op = "getattr" /\ call'.arg = llfuse_ROOT_INODE) =>
              /\ _if2a(call'.arg) = ROOT_INODE
              /\ ret'.exc = "none"
              /\ ret'.val[1].type = ArchiveRoot.type
       /\ (call'.op = "opendir" /\ call'.arg = llfuse_ROOT_INODE) =>
              /\ _if2a(call'.arg) = ROOT_INODE
              /\ ret'.exc = "none"
              /\ _fh'[ret'.val[1]].ref = ROOT_INODE]_vars

\* the tuple the kernel is given for directory entry e
Given(e) == <<e.name, _ia2f(e.id)>>

\* what the kernel holds of the directory behind handle fh is the first
\* off children, in order, under their names and FUSE inodes, and all of
\* them once a reply came empty
C26_Listed(fh) ==
    \E children \in {inodes[_fh[fh].ref + 1].children} :
        /\ listing[fh].off = Len(listing[fh].got)
        /\ listing[fh].off <= Len(children)
        /\ \A i \in 1 .. Len(listing[fh].got) :
               /\ <<listing[fh].got[i].name, listing[fh].got[i].st_ino>> = Given(children[i])
               /\ listing[fh].got[i].next = i
        /\ listing[fh].eof => listing[fh].off = Len(children)
        /\ Len(children) >= 2
        /\ children[1].name = CurDir /\ children[2].name = ParDir

\* a readdir on an open handle raises nothing and gives at least one entry
\* while any is left
C26_Reply ==
    (call'.op = "readdir" /\ call'.arg \in DOMAIN listing) =>
        /\ ret'.exc = "none"
        /\ listing[call'.arg].off < Len(inodes[_fh[call'.arg].ref + 1].children)
               => Len(ret'.val) >= 1

\* C26: successive readdir calls on one directory handle, each resumed at
\* the next-offset of the last entry of the reply before, give every child
\* of the directory once and in insertion order, '.' and '..' first,
\* wherever the replies were cut.
C26_Enumerates ==
    /\ [](DOMAIN listing = DOMAIN _fh /\ \A fh \in DOMAIN listing : C26_Listed(fh))
    /\ [][C26_Reply]_vars

\* a directory of four entries listed to its end in more than one reply
C26_Witness ==
    \E fh \in DOMAIN listing :
        /\ listing[fh].eof
        /\ Len(listing[fh].got) = 4
        /\ listing[fh].replies >= 2
        /\ listing[fh].got[3].name = <<"b">>

====
